---- MODULE Spec2Model ----
(***************************************************************************)
(* The cross-boundary execution bridge of the TypeScript SDK: host.ts      *)
(* (execute / executeAsync / getContext), internal/memory.ts (the buffer    *)
(* arena adapter), internal/polyfills.ts (UTF-8), worker-override.js (the  *)
(* script-worker replacement of host.ts) and index.ts (handle).            *)
(*                                                                         *)
(* One program instance is modelled.  Its build is fixed at Init:          *)
(*   "sync"   __ASYNC_BUILD__ = false            (Synchronous regime)      *)
(*   "async"  __ASYNC_BUILD__ = true             (CooperativeSuspend)      *)
(*   "worker" host.ts aliased to worker-override (inside script worker)    *)
(*   "memory" internal/memory.ts called directly, function by function     *)
(*                                                                         *)
(* The arena hands out block offsets 1..ArenaSize, first fit; offset 0 is  *)
(* what execute initialises its pointers to and is handed out only in      *)
(* SpecZero.                                                                *)
(*                                                                         *)
(* Spec       guest code calls execute / executeAsync.  __host.call and    *)
(*            __host.getExecutionResult can raise and the host can deliver *)
(*            bytes that are not JSON; the arena primitives (alloc,        *)
(*            read_string, write_string) do not fail.                      *)
(* SpecFault  one guest call in the WASM builds with arena primitives that *)
(*            can raise, and the "memory" build.                           *)
(* SpecHandle the entry point handle() of index.ts in the WASM builds,     *)
(*            with the calls it makes through execute / executeAsync and   *)
(*            one call of the user's handler.                              *)
(* SpecWorker the delegated wrapper of cli/build.js and handle() of         *)
(*            index.ts inside the script worker.                           *)
(* SpecZero   one guest call in the WASM builds with an arena whose        *)
(*            allocator also hands out offset 0.                           *)
(* SpecAnswered  Spec with a host that eventually answers every request   *)
(*            of the worker build (weak fairness of the delivery).         *)
(* SpecAI     one extract / summarize operation of ai.ts, with the upload  *)
(*            of pending files and the host that answers its calls.        *)
(*                                                                         *)
(* Text is a sequence of Unicode code points, bytes are sequences of       *)
(* 0..255.  JSON documents are abbreviated to four characters              *)
(*   '{' flag payload '}'     flag 'T' (ok: true) or 'F' (ok: false)       *)
(* and ParseJSON accepts exactly these; everything else is a SyntaxError.  *)
(***************************************************************************)
EXTENDS Integers, Sequences, FiniteSets, TLC

\* Guest calls per program instance.
MaxCalls == 2
\* Number of block offsets of the foreign arena (offsets 1..ArenaSize).
ArenaSize == 10
\* Blocks the "memory" build obtains through stringToPtr.
MaxHeld == 1
\* Runs of the delegated wrapper inside one script worker.
MaxRuns == 2
\* Calls of simple.Handle made by the bundled programs of one worker.
MaxEntries == 2

VARIABLES
    build,        \* "sync" | "async" | "worker"
    pc,           \* position of the single thread of control in host.ts
    fr,           \* the locals of the running execute()/executeAsync() frame
    exc,          \* the exception propagating through the finally blocks
    ret,          \* the value a `return` has staged while finally blocks run
    arena,        \* foreign linear memory: offset -> block
    slot,         \* the plugin's process-wide response staging slot
    asyncState,   \* asyncify_get_state(): 0 normal, 1 unwinding, 2 rewinding
    hostResult,   \* Synchronous regime: the result the host holds after call
    delivered,    \* ghost: the text the host delivered for this invocation
    trace,        \* ghost: foreign calls of the current logical invocation
    pass,         \* ghost: entry number of the current logical invocation
    guestLog,     \* ghost: the calls guest code made, in order
    hostLog,      \* ghost: the call/cast primitives the host observed
    outcome,      \* how the last execute()/executeAsync() ended
    nCalls,       \* number of guest calls made so far
    pendingHostRequests, \* worker-override.js: requestId -> {resolve, reject}
    promises,     \* worker build: requestId -> state of the returned Promise
    outbox,       \* worker build: messages posted with self.postMessage
    answered,     \* ghost: requestId -> the response the host sent for it
    mem,          \* "memory" build: the last call of a memory.ts function
    hpc,          \* position of handle() (index.ts); "off": not entered
    hs,           \* the locals of handle() and what it has done so far
    promiseChannel,  \* globalThis.__SIMPLE_PROMISE_CHANNEL__: 0 when not
                     \* set, else the run whose channel object it holds
    initialPayload,  \* globalThis.__SIMPLE_INITIAL_PAYLOAD__
    runs,            \* the runs of the delegated wrapper (build.js 67-91)
    handlerPromises, \* the promises made by the user's handler and handle()
    handleCalls,     \* ghost: the handle() calls made inside the worker
    ai               \* ai.ts: the running extract/summarize operation

vars == <<build, pc, fr, exc, ret, arena, slot, asyncState, hostResult,
          delivered, trace, pass, guestLog, hostLog, outcome, nCalls,
          pendingHostRequests, promises, outbox, answered, mem, hpc, hs,
          promiseChannel, initialPayload, runs, handlerPromises, handleCalls,
          ai>>

wasmVars == <<pc, fr, exc, ret, arena, slot, asyncState, hostResult,
              delivered, trace, pass, guestLog, hostLog, outcome>>

workerVars == <<pendingHostRequests, promises, outbox, answered>>

\* The delegation channel and the pre-placed payload.
channelVars == <<promiseChannel, initialPayload, runs, handlerPromises,
                 handleCalls>>

\* What the WASM execution bridge leaves alone.
outsideWasm == <<workerVars, mem, hpc, hs, channelVars, ai>>

----------------------------------------------------------------------------
(* UTF-8, as internal/polyfills.ts computes it *)

\* TextEncoder.encode of one code point (polyfills.ts 109-137).
EncodeCodePoint(cp) ==
    IF cp <= 127 THEN <<cp>>
    ELSE IF cp <= 2047 THEN <<192 + (cp \div 64), 128 + (cp % 64)>>
    ELSE IF cp <= 65535
         THEN <<224 + (cp \div 4096), 128 + ((cp \div 64) % 64), 128 + (cp % 64)>>
    ELSE <<240 + (cp \div 262144), 128 + ((cp \div 4096) % 64),
           128 + ((cp \div 64) % 64), 128 + (cp % 64)>>

RECURSIVE Utf8Encode(_)
\* TextEncoder.encode (polyfills.ts 101-145).
Utf8Encode(str) ==
    IF str = <<>> THEN <<>>
    ELSE EncodeCodePoint(Head(str)) \o Utf8Encode(Tail(str))

\* The lead-byte classification of TextDecoder.decode (polyfills.ts 48-63).
BytesNeeded(octet) ==
    IF octet <= 127 THEN 0
    ELSE IF octet <= 223 THEN 1
    ELSE IF octet <= 239 THEN 2
    ELSE IF octet <= 244 THEN 3
    ELSE 0

LeadBits(octet) ==
    IF octet <= 127 THEN octet
    ELSE IF octet <= 223 THEN octet % 32
    ELSE IF octet <= 239 THEN octet % 16
    ELSE IF octet <= 244 THEN octet % 8
    ELSE 0

RECURSIVE Continuation(_, _, _, _)
\* The inner loop of TextDecoder.decode (polyfills.ts 66-71).
Continuation(octets, i, k, codePoint) ==
    IF k >= BytesNeeded(octets[i]) THEN codePoint
    ELSE Continuation(octets, i, k + 1, codePoint * 64 + (octets[i + k + 1] % 64))

RECURSIVE DecodeFrom(_, _)
\* The outer loop of TextDecoder.decode (polyfills.ts 43-83); i is 1-based.
DecodeFrom(octets, i) ==
    IF i > Len(octets) THEN <<>>
    ELSE LET need == BytesNeeded(octets[i])
             whole == Len(octets) - (i - 1) - need > 0
         IN  IF whole
             THEN <<Continuation(octets, i, 0, LeadBits(octets[i]))>>
                      \o DecodeFrom(octets, i + need + 1)
             ELSE <<65533>>

\* TextDecoder.decode (polyfills.ts 39-86).
Utf8Decode(octets) == DecodeFrom(octets, 1)

----------------------------------------------------------------------------
(* Values *)

NoText == <<0>>

\* SimpleResponse (types.ts 72-76), with absent fields written "none".
Response(ok, data, message) == [ok |-> ok, data |-> data, error |-> message]

NoResponse == Response(FALSE, "none", "none")

\* host.ts 92.
EmptyResultResponse == Response(FALSE, "none", "Host returned an empty result.")

SyntaxError == "SyntaxError"

\* JSON.parse on the abbreviated documents: '{' 'T'|'F' payload '}'.
IsJSON(text) ==
    /\ Len(text) = 4
    /\ text[1] = 123
    /\ text[2] \in {84, 70}
    /\ text[4] = 125

\* The string a payload character denotes once JSON.parse has decoded it.
Payload(cp) ==
    CASE cp = 100 -> "d"
      [] cp = 233 -> "e-acute"
      [] cp = 109 -> "m"
      [] cp = 110 -> "none"
      [] OTHER -> "other"

\* Mutant: a failure response has its error replaced, as the worker
\* listener does.
ParseJSON_RewriteError(text) ==
    IF text[2] = 84 THEN Response(TRUE, Payload(text[3]), "none")
    ELSE Response(FALSE, "none", "Unknown host error")

ParseJSON(text) ==
    IF text[2] = 84 THEN Response(TRUE, Payload(text[3]), "none")
    ELSE Response(FALSE, "none", Payload(text[3]))

\* The character that abbreviates a string inside a JSON document.
CharOf(str) ==
    CASE str = "d" -> 100
      [] str = "e-acute" -> 233
      [] str = "m" -> 109
      [] str = "none" -> 110
      [] str = "h" -> 104
      [] str = "SyntaxError" -> 83
      [] str = "HostCallError" -> 72
      [] str = "HostContextError" -> 67
      [] str = "no input payload provided by the host environment" -> 105
      [] str = "Unconstrained script execution failed" -> 85
      [] OTHER -> 111

\* JSON.stringify(params ?? null) (host.ts 31, 135): absent params give
\* "null"; the number 1; the response of a '__done__' signal, abbreviated
\* like the documents ParseJSON reads; the parameters of a
\* 'runtime/script:execute' call, '{' 's' request '}' with 's' for the
\* bundled script.
StringifyParams(params) ==
    CASE params.tag = "absent" -> <<110, 117, 108, 108>>
      [] params.tag = "number" -> <<49>>
      [] params.tag = "done" ->
            <<123, IF params.ok THEN 84 ELSE 70, CharOf(params.value), 125>>
      [] params.tag = "script" -> <<123, 115, params.request, 125>>

\* JSON.stringify(context) (host.ts 32), abbreviated to "{}".
ContextJSON == <<123, 125>>

\* The texts a host can deliver as the result of one call:
\* empty, {ok:true,data:'d'}, {ok:true,data:'e-acute'} (5 bytes),
\* {ok:false,error:{message:'m'}}, {ok:false} and a truncated document.
HostTexts ==
    { <<>>, <<123, 84, 100, 125>>, <<123, 84, 233, 125>>,
      <<123, 70, 109, 125>>, <<123, 70, 110, 125>>, <<123, 84>> }

ActionNames == { <<>>, <<101>> }

\* The parameters of a guest call: none, or the number 1.
ParamValues == { [tag |-> "absent"], [tag |-> "number"] }

----------------------------------------------------------------------------
(* The foreign arena (__wasm.alloc / dealloc / read_string / write_string) *)

Offsets == 1..ArenaSize

FreeBlock == [live |-> FALSE, size |-> 0, data |-> <<>>]

FreeOffsets(ar) == {p \in DOMAIN ar : ~ar[p].live}

\* One foreign call, as the trace records it.
Event(op, site, ptr, len) ==
    [op |-> op, site |-> site, ptr |-> ptr, len |-> len, pass |-> pass]

\* __wasm.alloc(size): first fit among the offsets of the arena.
wasm_alloc(ar, size) ==
    CHOOSE p \in FreeOffsets(ar) : \A q \in FreeOffsets(ar) : p <= q

AfterAlloc(ar, size) ==
    [ar EXCEPT ![wasm_alloc(ar, size)] =
                   [live |-> TRUE, size |-> size, data |-> <<>>]]

\* __wasm.dealloc(ptr, size).
wasm_dealloc(ar, ptr, size) ==
    IF ptr \in DOMAIN ar THEN [ar EXCEPT ![ptr] = FreeBlock] ELSE ar

\* __wasm.write_string(ptr, data): the UTF-8 bytes of data are stored at ptr.
wasm_write_string(ar, ptr, str) ==
    [ar EXCEPT ![ptr].data = Utf8Encode(str)]

\* The len bytes at ptr; a byte that was never written reads as 0.
BytesAt(ar, ptr, len) ==
    [i \in 1..len |-> IF ptr \in DOMAIN ar /\ i <= Len(ar[ptr].data)
                      THEN ar[ptr].data[i] ELSE 0]

\* __wasm.read_string(ptr, len): the text of the len bytes at ptr.
wasm_read_string(ar, ptr, len) == Utf8Decode(BytesAt(ar, ptr, len))

\* allocate (memory.ts 54-56).
allocate(ar, size) == wasm_alloc(ar, size)

\* The ways a foreign arena primitive can fail inside stringToPtr: not at
\* all, __wasm.alloc raises, __wasm.write_string raises.
MarshalFaults == {"none", "alloc", "write"}

\* Mutant: a zero length is not recognised, every read goes to the arena.
IsZeroLength_Never(len) == FALSE

\* if (len === 0) (memory.ts 93, 127).
IsZeroLength(len) == len = 0

\* Mutant: readBufferSlice without its try/catch, a failing read raises.
readBufferSlice_NoCatch(ar, ptr, len, site, fault) ==
    IF IsZeroLength(len)
    THEN [raised |-> FALSE, bytes |-> <<>>, events |-> <<>>]
    ELSE IF fault
    THEN [raised |-> TRUE, bytes |-> <<>>,
          events |-> <<Event("read_string", site, ptr, len)>>]
    ELSE [raised |-> FALSE,
          bytes |-> Utf8Encode(wasm_read_string(ar, ptr, len)),
          events |-> <<Event("read_string", site, ptr, len)>>]

\* readBufferSlice (memory.ts 92-105): whether the call raises, the bytes
\* it returns and the foreign calls it makes; `fault` says that
\* __wasm.read_string raises when it is called.
readBufferSlice(ar, ptr, len, site, fault) ==
    IF IsZeroLength(len)
    THEN [raised |-> FALSE, bytes |-> <<>>, events |-> <<>>]
    ELSE IF fault
    THEN [raised |-> FALSE, bytes |-> <<>>,
          events |-> <<Event("read_string", site, ptr, len),
                       Event("console.error", site, ptr, len)>>]
    ELSE [raised |-> FALSE,
          bytes |-> Utf8Encode(wasm_read_string(ar, ptr, len)),
          events |-> <<Event("read_string", site, ptr, len)>>]

\* readString (memory.ts 126-138).
readString(ar, ptr, len, site, fault) ==
    IF IsZeroLength(len)
    THEN [raised |-> FALSE, text |-> <<>>, events |-> <<>>]
    ELSE IF fault
    THEN [raised |-> FALSE, text |-> <<>>,
          events |-> <<Event("read_string", site, ptr, len),
                       Event("console.error", site, ptr, len)>>]
    ELSE [raised |-> FALSE, text |-> wasm_read_string(ar, ptr, len),
          events |-> <<Event("read_string", site, ptr, len)>>]

\* Mutant: the handle carries the number of characters of the string.
ByteLength_Characters(str) == Len(str)

\* bytes.length of encoder.encode(str) (memory.ts 162-163, 167).
ByteLength(str) == Len(Utf8Encode(str))

\* stringToPtr (memory.ts 157-168): whether the call raises, the handle it
\* returns, the arena afterwards and the foreign calls made.  Nothing in
\* stringToPtr catches: a primitive that raises ends the call, and a block
\* that alloc had handed out before write_string raised stays allocated.
stringToPtr(ar, str, site, fault) ==
    IF Len(str) = 0
    THEN LET ptr == allocate(ar, 0)
         IN  IF fault = "alloc"
             THEN [raised |-> TRUE, ptr |-> 0, len |-> 0, arena |-> ar,
                   events |-> <<Event("alloc", site, 0, 0)>>]
             ELSE [raised |-> FALSE, ptr |-> ptr, len |-> 0,
                   arena |-> AfterAlloc(ar, 0),
                   events |-> <<Event("alloc", site, ptr, 0)>>]
    ELSE LET size == ByteLength(str)
             ptr == allocate(ar, size)
         IN  IF fault = "alloc"
             THEN [raised |-> TRUE, ptr |-> 0, len |-> 0, arena |-> ar,
                   events |-> <<Event("alloc", site, 0, size)>>]
             ELSE IF fault = "write"
             THEN [raised |-> TRUE, ptr |-> 0, len |-> 0,
                   arena |-> AfterAlloc(ar, size),
                   events |-> <<Event("alloc", site, ptr, size),
                                Event("write_string", site, ptr, size)>>]
             ELSE [raised |-> FALSE, ptr |-> ptr, len |-> size,
                   arena |-> wasm_write_string(AfterAlloc(ar, size), ptr, str),
                   events |-> <<Event("alloc", site, ptr, size),
                                Event("write_string", site, ptr, size)>>]

----------------------------------------------------------------------------
(* host.ts: execute and executeAsync *)

\* The locals of execute (host.ts 23-28, 40-41, 82-83) and its arguments.
NewFrame(kind, actionName, params) ==
    [kind |-> kind, actionName |-> actionName, params |-> params,
     actionNamePtr |-> 0, actionNameLen |-> 0,
     paramsPtr |-> 0, paramsLen |-> 0,
     contextPtr |-> 0, contextLen |-> 0,
     responsePtr |-> 0, responseLen |-> 0,
     resultPtr |-> 0, resultLen |-> 0,
     resultJSON |-> <<>>]

NoFrame == NewFrame("none", <<>>, [tag |-> "absent"])

NoOutcome == [kind |-> "none", value |-> NoResponse, err |-> "none"]
Returned(v) == [kind |-> "return", value |-> v, err |-> "none"]
Raised(e) == [kind |-> "raise", value |-> NoResponse, err |-> e]

ClearSlot == [ptr |-> 0, len |-> 0]

\* Mutant: executeAsync takes the path of execute once its buffers exist.
AfterMarshal_AlwaysCall(kind) ==
    IF build = "async" THEN "a_branch" ELSE "s_call"

\* Mutant: the action name and the parameters are passed in each other's
\* place.
CallArgs_Swapped(f) ==
    [namePtr |-> f.paramsPtr, nameLen |-> f.paramsLen,
     paramsPtr |-> f.actionNamePtr, paramsLen |-> f.actionNameLen,
     contextPtr |-> f.contextPtr, contextLen |-> f.contextLen]

\* The six arguments of __host.call and __host.cast (host.ts 54, 87, 143).
CallArgs(f) ==
    [namePtr |-> f.actionNamePtr, nameLen |-> f.actionNameLen,
     paramsPtr |-> f.paramsPtr, paramsLen |-> f.paramsLen,
     contextPtr |-> f.contextPtr, contextLen |-> f.contextLen]

\* What the host sees of a call or cast: it reads the action name and the
\* parameters through the handles it was given.
Observed(prim, ar, args) ==
    [prim |-> prim,
     name |-> wasm_read_string(ar, args.namePtr, args.nameLen),
     params |-> wasm_read_string(ar, args.paramsPtr, args.paramsLen)]

GuestCall(prim, actionName, params) ==
    [prim |-> prim, name |-> actionName, params |-> StringifyParams(params)]

\* Room for the buffers of one more guest call (parameters of both passes
\* and one result buffer): the arena of the model is finite.
RoomForCall == Cardinality(FreeOffsets(arena)) >= 7

\* No memory.ts function has been called directly.
NoAdapterCall ==
    [op |-> "none", str |-> <<>>, ptr |-> 0, len |-> 0, fault |-> "none",
     raised |-> FALSE, out |-> <<>>, events |-> <<>>,
     held |-> FALSE, hstr |-> <<>>, hptr |-> 0, hlen |-> 0]

\* handle() before it has done anything (index.ts 111).
NewHandle ==
    [input |-> <<>>, read |-> FALSE, size |-> -1, request |-> 0,
     handlerCalled |-> FALSE, parsed |-> FALSE, caught |-> 0,
     inCatch |-> FALSE, rejected |-> FALSE,
     thrown |-> [kind |-> "none", message |-> "none"],
     delegated |-> NoOutcome]

\* globalThis.__SIMPLE_INITIAL_PAYLOAD__ is not set.
NoPayload == 0

\* The request of the payload script.worker.ts places before it runs the
\* bundle (index.ts 171-173): the request 'q'.
PlacedRequest == 113

\* Mutant: the pre-placed payload is not looked at.
HasInitialPayload_Never(payload) == FALSE

\* if (globalThis.__SIMPLE_INITIAL_PAYLOAD__) (index.ts 171).
HasInitialPayload(payload) == payload # NoPayload

\* JSON.stringify(globalThis.__SIMPLE_INITIAL_PAYLOAD__.request)
\* (index.ts 173): the document '{' request '}'.
StringifyRequest(payload) == <<123, payload, 125>>

\* A run of the delegated wrapper that has not started: `promise` is
\* channel.promise of the run's own channel object (0 is null), `awaited`
\* the promise `await channel.promise` took (build.js 68, 82).  Ghosts:
\* `found` is what the global location held when the run started, `placed`
\* counts the assignments to channel.promise, `left` is what the global
\* location held when the run had ended.
NewRun ==
    [pc |-> "idle", promise |-> 0, awaited |-> 0, found |-> 0, placed |-> 0,
     left |-> 0, result |-> [kind |-> "none", value |-> "none"]]

\* A program instance that has made no call yet, with an arena that hands
\* out the offsets of `offsets`.
\* No AI operation has been started.
NoOperation ==
    [pc |-> "idle", operation |-> "none", input |-> "none", calls |-> <<>>,
     answers |-> <<>>, outcome |-> [kind |-> "none", value |-> "none"]]

FreshWith(offsets) ==
    /\ pc = "idle"
    /\ fr = NoFrame
    /\ exc = "none"
    /\ ret = NoResponse
    /\ arena = [p \in offsets |-> FreeBlock]
    /\ slot = ClearSlot
    /\ asyncState = 0
    /\ hostResult = <<>>
    /\ delivered = NoText
    /\ trace = <<>>
    /\ pass = 0
    /\ guestLog = <<>>
    /\ hostLog = <<>>
    /\ outcome = NoOutcome
    /\ nCalls = 0
    /\ pendingHostRequests = {}
    /\ promises = <<>>
    /\ outbox = <<>>
    /\ answered = <<>>
    /\ mem = NoAdapterCall
    /\ hs = NewHandle
    /\ promiseChannel = 0
    /\ runs = [k \in 1..MaxRuns |-> NewRun]
    /\ handlerPromises = <<>>
    /\ handleCalls = <<>>
    /\ ai = NoOperation

Fresh == FreshWith(Offsets)

Init ==
    /\ build \in {"sync", "async", "worker"}
    /\ Fresh
    /\ hpc = "off"
    /\ initialPayload = IF build = "worker" THEN PlacedRequest ELSE NoPayload

\* Guest code calls execute(actionName, params, context) (host.ts 20-32).
GuestExecute(actionName, params) ==
    /\ build \in {"sync", "async"}
    /\ hpc \in {"off", "handler"}
    /\ pc = "idle"
    /\ asyncState = 0
    /\ nCalls < MaxCalls
    /\ RoomForCall
    /\ fr' = NewFrame("call", actionName, params)
    /\ pc' = "m_name"
    /\ exc' = "none"
    /\ ret' = NoResponse
    /\ trace' = <<>>
    /\ pass' = 1
    /\ delivered' = NoText
    /\ outcome' = NoOutcome
    /\ guestLog' = Append(guestLog, GuestCall("call", actionName, params))
    /\ nCalls' = nCalls + 1
    /\ UNCHANGED <<build, arena, slot, asyncState, hostResult, hostLog>>
    /\ UNCHANGED outsideWasm

\* Guest code calls executeAsync(actionName, params, context)
\* (host.ts 134-136).
GuestExecuteAsync(actionName, params) ==
    /\ build \in {"sync", "async"}
    /\ hpc \in {"off", "handler"}
    /\ pc = "idle"
    /\ asyncState = 0
    /\ nCalls < MaxCalls
    /\ RoomForCall
    /\ fr' = NewFrame("cast", actionName, params)
    /\ pc' = "m_name"
    /\ exc' = "none"
    /\ ret' = NoResponse
    /\ trace' = <<>>
    /\ pass' = 1
    /\ delivered' = NoText
    /\ outcome' = NoOutcome
    /\ guestLog' = Append(guestLog, GuestCall("cast", actionName, params))
    /\ nCalls' = nCalls + 1
    /\ UNCHANGED <<build, arena, slot, asyncState, hostResult, hostLog>>
    /\ UNCHANGED outsideWasm

\* Where execute goes once the three buffers exist (host.ts 38, 80, 143).
AfterMarshal(kind) ==
    IF kind = "cast" THEN "cast"
    ELSE IF build = "async" THEN "a_branch"
    ELSE "s_call"

\* One stringToPtr call of execute (host.ts 34-36) or of executeAsync
\* (host.ts 138-140).  When it raises, execute goes to its outer finally
\* block with the pointers assigned so far; executeAsync has no try block
\* and ends with the exception.
Marshal(at, str, site, ptrField, lenField, next, fault) ==
    /\ pc = at
    /\ LET r == stringToPtr(arena, str, site, fault)
       IN  /\ arena' = r.arena
           /\ trace' = trace \o r.events
           /\ IF ~r.raised
              THEN /\ fr' = [fr EXCEPT ![ptrField] = r.ptr, ![lenField] = r.len]
                   /\ pc' = next
                   /\ UNCHANGED <<exc, outcome>>
              ELSE IF fr.kind = "cast"
              THEN /\ outcome' = Raised("MarshalError")
                   /\ pc' = "idle"
                   /\ UNCHANGED <<fr, exc>>
              ELSE /\ exc' = "MarshalError"
                   /\ pc' = "o_finally"
                   /\ UNCHANGED <<fr, outcome>>
    /\ UNCHANGED <<build, ret, slot, asyncState, hostResult, delivered,
                   pass, guestLog, hostLog, nCalls>>
    /\ UNCHANGED outsideWasm

\* [actionNamePtr, actionNameLen] = stringToPtr(actionName)
\* (host.ts 34, 138).
MarshalActionName ==
    Marshal("m_name", fr.actionName, "actionName",
            "actionNamePtr", "actionNameLen", "m_params", "none")

\* [paramsPtr, paramsLen] = stringToPtr(paramsJSON) (host.ts 35, 139).
MarshalParams ==
    Marshal("m_params", StringifyParams(fr.params), "params",
            "paramsPtr", "paramsLen", "m_context", "none")

\* [contextPtr, contextLen] = stringToPtr(contextJSON) (host.ts 36, 140).
MarshalContext ==
    Marshal("m_context", ContextJSON, "context",
            "contextPtr", "contextLen", AfterMarshal(fr.kind), "none")

\* A stringToPtr call of execute or executeAsync in which __wasm.alloc or
\* __wasm.write_string raises.
MarshalFault ==
    \E fault \in MarshalFaults \ {"none"} :
        \/ Marshal("m_name", fr.actionName, "actionName",
                   "actionNamePtr", "actionNameLen", "m_params", fault)
        \/ Marshal("m_params", StringifyParams(fr.params), "params",
                   "paramsPtr", "paramsLen", "m_context", fault)
        \/ Marshal("m_context", ContextJSON, "context",
                   "contextPtr", "contextLen", AfterMarshal(fr.kind), fault)

\* __host.cast(...) and the return of executeAsync (host.ts 143-144).
ExecuteAsyncCast ==
    /\ pc = "cast"
    /\ hostLog' = Append(hostLog, Observed("cast", arena, CallArgs(fr)))
    /\ trace' = Append(trace, Event("cast", "host", fr.actionNamePtr, fr.actionNameLen))
    /\ outcome' = Returned(NoResponse)
    /\ pc' = "idle"
    /\ UNCHANGED <<build, fr, exc, ret, arena, slot, asyncState, hostResult,
                   delivered, pass, guestLog, nCalls>>
    /\ UNCHANGED outsideWasm

----------------------------------------------------------------------------
(* execute, Synchronous regime (host.ts 80-113) *)

\* The host takes the call and now holds a result, or the call raises
\* (host.ts 87).
SyncHostCall ==
    /\ pc = "s_call"
    /\ hostLog' = Append(hostLog, Observed("call", arena, CallArgs(fr)))
    /\ trace' = Append(trace, Event("call", "host", fr.actionNamePtr, fr.actionNameLen))
    /\ \/ \E text \in HostTexts :
             /\ hostResult' = text
             /\ delivered' = text
             /\ pc' = "s_size"
             /\ exc' = exc
       \/ /\ exc' = "HostCallError"
          /\ pc' = "s_finally"
          /\ UNCHANGED <<hostResult, delivered>>
    /\ UNCHANGED <<build, fr, ret, arena, slot, asyncState, pass, guestLog,
                   outcome, nCalls>>
    /\ UNCHANGED outsideWasm

\* Mutant: the zero-size check is missing.
IsEmptyResult_Never(resultLen) == FALSE

\* if (resultLen === 0) (host.ts 91).
IsEmptyResult(resultLen) == resultLen = 0

\* resultLen = __host.getExecutionResultSize() and the empty-result return
\* (host.ts 90-93).
SyncResultSize ==
    /\ pc = "s_size"
    /\ LET size == Len(Utf8Encode(hostResult))
       IN  /\ fr' = [fr EXCEPT !.resultLen = size]
           /\ trace' = Append(trace, Event("getExecutionResultSize", "host", 0, size))
           /\ IF IsEmptyResult(size)
              THEN ret' = EmptyResultResponse /\ pc' = "s_finally"
              ELSE ret' = ret /\ pc' = "s_alloc"
    /\ UNCHANGED <<build, exc, arena, slot, asyncState, hostResult, delivered,
                   pass, guestLog, hostLog, outcome, nCalls>>
    /\ UNCHANGED outsideWasm

\* resultPtr = allocate(resultLen) (host.ts 96).
SyncAllocResult ==
    /\ pc = "s_alloc"
    /\ LET ptr == allocate(arena, fr.resultLen)
       IN  /\ fr' = [fr EXCEPT !.resultPtr = ptr]
           /\ arena' = AfterAlloc(arena, fr.resultLen)
           /\ trace' = Append(trace, Event("alloc", "result", ptr, fr.resultLen))
    /\ pc' = "s_get"
    /\ UNCHANGED <<build, exc, ret, slot, asyncState, hostResult, delivered,
                   pass, guestLog, hostLog, outcome, nCalls>>
    /\ UNCHANGED outsideWasm

\* Mutant: the host is told to write into a parameter buffer.
ResultDestination_Params(f) == f.paramsPtr

\* The argument of __host.getExecutionResult (host.ts 99).
ResultDestination(f) == f.resultPtr

\* __host.getExecutionResult(resultPtr): the host writes the bytes of its
\* result at resultPtr, or raises (host.ts 99).
SyncGetResult ==
    /\ pc = "s_get"
    /\ trace' = Append(trace, Event("getExecutionResult", "host", ResultDestination(fr), 0))
    /\ \/ /\ arena' = [arena EXCEPT ![ResultDestination(fr)].data = Utf8Encode(hostResult)]
          /\ pc' = "s_read"
          /\ exc' = exc
       \/ /\ exc' = "HostResultError"
          /\ pc' = "s_finally"
          /\ arena' = arena
    /\ UNCHANGED <<build, fr, ret, slot, asyncState, hostResult, delivered,
                   pass, guestLog, hostLog, outcome, nCalls>>
    /\ UNCHANGED outsideWasm

\* readBufferSlice, decoder.decode and JSON.parse (host.ts 102-105);
\* `fault` says that __wasm.read_string raises.
SyncRead(fault) ==
    /\ pc = "s_read"
    /\ LET r == readBufferSlice(arena, fr.resultPtr, fr.resultLen, "result", fault)
           resultJSON == Utf8Decode(r.bytes)
       IN  /\ trace' = trace \o r.events
           /\ IF r.raised
              THEN fr' = fr /\ ret' = ret /\ exc' = "ReadError"
              ELSE /\ fr' = [fr EXCEPT !.resultJSON = resultJSON]
                   /\ IF IsJSON(resultJSON)
                      THEN ret' = ParseJSON(resultJSON) /\ exc' = exc
                      ELSE ret' = ret /\ exc' = SyntaxError
    /\ pc' = "s_finally"
    /\ UNCHANGED <<build, arena, slot, asyncState, hostResult, delivered,
                   pass, guestLog, hostLog, outcome, nCalls>>
    /\ UNCHANGED outsideWasm

SyncReadParse == SyncRead(FALSE)

\* The same step with a read that fails at the foreign boundary.
SyncReadFault == SyncRead(TRUE)

\* The guard of a release in a finally block (host.ts 75, 109, 117, 121,
\* 125).
Allocated(ptr) == ptr > 0

RECURSIVE Released(_, _)
\* The arena after the dealloc calls of a sequence of release events
\* (deallocate, memory.ts 72-74).
Released(ar, events) ==
    IF events = <<>> THEN ar
    ELSE Released(wasm_dealloc(ar, Head(events).ptr, Head(events).len), Tail(events))

\* Mutant: the result buffer is released on the success path only.
ResultRelease_NotOnRaise(f) ==
    IF exc # "none" \/ f.resultPtr <= 0 THEN <<>>
    ELSE <<Event("dealloc", "result", f.resultPtr, f.resultLen)>>

\* if (resultPtr > 0) deallocate(resultPtr, resultLen) (host.ts 109-111).
ResultRelease(f) ==
    IF Allocated(f.resultPtr)
    THEN <<Event("dealloc", "result", f.resultPtr, f.resultLen)>>
    ELSE <<>>

\* The inner finally block of the synchronous path (host.ts 107-112).
SyncFinally ==
    /\ pc = "s_finally"
    /\ arena' = Released(arena, ResultRelease(fr))
    /\ trace' = trace \o ResultRelease(fr)
    /\ pc' = "o_finally"
    /\ UNCHANGED <<build, fr, exc, ret, slot, asyncState, hostResult,
                   delivered, pass, guestLog, hostLog, outcome, nCalls>>
    /\ UNCHANGED outsideWasm

\* Mutant: the parameter buffers are released after the call instead of in
\* a finally block, so an exception skips the releases.
ParamReleases_NotOnRaise(f) ==
    IF exc # "none" THEN <<>>
    ELSE <<Event("dealloc", "actionName", f.actionNamePtr, f.actionNameLen),
           Event("dealloc", "params", f.paramsPtr, f.paramsLen),
           Event("dealloc", "context", f.contextPtr, f.contextLen)>>

\* Mutant: the releases are issued only when all three parameter buffers
\* exist.
ParamReleases_AllOrNone(f) ==
    IF Allocated(f.actionNamePtr) /\ Allocated(f.paramsPtr)
          /\ Allocated(f.contextPtr)
    THEN <<Event("dealloc", "actionName", f.actionNamePtr, f.actionNameLen),
           Event("dealloc", "params", f.paramsPtr, f.paramsLen),
           Event("dealloc", "context", f.contextPtr, f.contextLen)>>
    ELSE <<>>

\* The releases of the outer finally block, in source order
\* (host.ts 117-127).
ParamReleases(f) ==
    (IF Allocated(f.actionNamePtr)
     THEN <<Event("dealloc", "actionName", f.actionNamePtr, f.actionNameLen)>>
     ELSE <<>>)
    \o (IF Allocated(f.paramsPtr)
        THEN <<Event("dealloc", "params", f.paramsPtr, f.paramsLen)>>
        ELSE <<>>)
    \o (IF Allocated(f.contextPtr)
        THEN <<Event("dealloc", "context", f.contextPtr, f.contextLen)>>
        ELSE <<>>)

\* The outer finally block and the end of execute (host.ts 115-129).
OuterFinally ==
    /\ pc = "o_finally"
    /\ arena' = Released(arena, ParamReleases(fr))
    /\ trace' = trace \o ParamReleases(fr)
    /\ outcome' = IF exc # "none" THEN Raised(exc) ELSE Returned(ret)
    /\ pc' = "idle"
    /\ UNCHANGED <<build, fr, exc, ret, slot, asyncState, hostResult,
                   delivered, pass, guestLog, hostLog, nCalls>>
    /\ UNCHANGED outsideWasm

----------------------------------------------------------------------------
(* execute, CooperativeSuspend regime (host.ts 38-79) *)

\* Mutant: the Rewinding state is not recognised, every entry calls the host.
IsRewinding_Never(state) == FALSE

\* asyncify_get_state() === 2 (host.ts 46).
IsRewinding(state) == state = 2

\* The host stages a response: it places the bytes in arena memory and
\* records pointer and length in the plugin's staging slot.  An empty
\* response stages no buffer.
Staged(ar, text) ==
    LET bytes == Utf8Encode(text)
        ptr == wasm_alloc(ar, Len(bytes))
    IN  IF Len(bytes) = 0
        THEN [arena |-> ar, slot |-> ClearSlot]
        ELSE [arena |-> [AfterAlloc(ar, Len(bytes)) EXCEPT ![ptr].data = bytes],
              slot |-> [ptr |-> ptr, len |-> Len(bytes)]]

\* Rewinding entry: asyncify_stop_rewind() (host.ts 46-50).
AsyncStopRewind ==
    /\ pc = "a_branch"
    /\ IsRewinding(asyncState)
    /\ asyncState' = 0
    /\ trace' = Append(trace, Event("asyncify_stop_rewind", "substrate", 0, 0))
    /\ pc' = "a_read"
    /\ UNCHANGED <<build, fr, exc, ret, arena, slot, hostResult, delivered,
                   pass, guestLog, hostLog, outcome, nCalls>>
    /\ UNCHANGED outsideWasm

\* First entry: __host.call(...) (host.ts 51-55).  The host answers at once
\* and stages the response, or starts an unwind (the frame is left where it
\* stands and nothing of it runs any more), or the call raises.
AsyncHostCall ==
    /\ pc = "a_branch"
    /\ ~IsRewinding(asyncState)
    /\ hostLog' = Append(hostLog, Observed("call", arena, CallArgs(fr)))
    /\ trace' = Append(trace, Event("call", "host", fr.actionNamePtr, fr.actionNameLen))
    /\ \/ \E text \in HostTexts :
             /\ arena' = Staged(arena, text).arena
             /\ slot' = Staged(arena, text).slot
             /\ delivered' = text
             /\ pc' = "a_read"
             /\ UNCHANGED <<exc, asyncState>>
       \/ /\ asyncState' = 1
          /\ pc' = "unwound"
          /\ UNCHANGED <<arena, slot, delivered, exc>>
       \/ /\ exc' = "HostCallError"
          /\ pc' = "a_finally"
          /\ UNCHANGED <<arena, slot, delivered, asyncState>>
    /\ UNCHANGED <<build, fr, ret, hostResult, pass, guestLog, outcome, nCalls>>
    /\ UNCHANGED outsideWasm

\* The host operation completes while the stack is unwound: the host stages
\* the response and the substrate starts the rewind.
HostCompletes ==
    /\ pc = "unwound"
    /\ asyncState = 1
    /\ \E text \in HostTexts :
          /\ arena' = Staged(arena, text).arena
          /\ slot' = Staged(arena, text).slot
          /\ delivered' = text
    /\ asyncState' = 2
    /\ pc' = "resume"
    /\ UNCHANGED <<build, fr, exc, ret, hostResult, trace, pass, guestLog,
                   hostLog, outcome, nCalls>>
    /\ UNCHANGED outsideWasm

\* The rewind enters the same execute call again, from the top
\* (host.ts 20-32, 44-48).
ReEnterExecute ==
    /\ pc = "resume"
    /\ fr' = NewFrame("call", fr.actionName, fr.params)
    /\ pass' = 2
    /\ pc' = "m_name"
    /\ UNCHANGED <<build, exc, ret, arena, slot, asyncState, hostResult,
                   delivered, trace, guestLog, hostLog, outcome, nCalls>>
    /\ UNCHANGED outsideWasm

\* responsePtr, responseLen, readBufferSlice and decoder.decode
\* (host.ts 61-65); `fault` says that __wasm.read_string raises.
AsyncRead(fault) ==
    /\ pc = "a_read"
    /\ LET responsePtr == slot.ptr
           responseLen == slot.len
           r == readBufferSlice(arena, responsePtr, responseLen, "response", fault)
       IN  /\ trace' = trace \o <<Event("get_response_ptr", "plugin", responsePtr, 0),
                                  Event("get_response_len", "plugin", 0, responseLen)>>
                              \o r.events
           /\ IF r.raised
              THEN /\ fr' = [fr EXCEPT !.responsePtr = responsePtr,
                                       !.responseLen = responseLen]
                   /\ exc' = "ReadError"
                   /\ pc' = "a_finally"
              ELSE /\ fr' = [fr EXCEPT !.responsePtr = responsePtr,
                                       !.responseLen = responseLen,
                                       !.resultJSON = Utf8Decode(r.bytes)]
                   /\ exc' = exc
                   /\ pc' = "a_clear"
    /\ UNCHANGED <<build, ret, arena, slot, asyncState, hostResult,
                   delivered, pass, guestLog, hostLog, outcome, nCalls>>
    /\ UNCHANGED outsideWasm

AsyncReadResponse == AsyncRead(FALSE)

\* The same step with a read that fails at the foreign boundary.
AsyncReadFault == AsyncRead(TRUE)

\* Mutant: the slot is cleared after JSON.parse, which a parse error skips.
clear_response_buffer_AfterParse(s) ==
    IF IsJSON(fr.resultJSON) THEN [ptr |-> 0, len |-> 0] ELSE s

\* The staging slot after __wasm.clear_response_buffer() (host.ts 69).
clear_response_buffer(s) == ClearSlot

\* __wasm.clear_response_buffer() (host.ts 67-69).
AsyncClear ==
    /\ pc = "a_clear"
    /\ slot' = clear_response_buffer(slot)
    /\ trace' = Append(trace, Event("clear_response_buffer", "plugin", 0, 0))
    /\ pc' = "a_parse"
    /\ UNCHANGED <<build, fr, exc, ret, arena, asyncState, hostResult,
                   delivered, pass, guestLog, hostLog, outcome, nCalls>>
    /\ UNCHANGED outsideWasm

\* return JSON.parse(resultJSON) (host.ts 71).
AsyncParse ==
    /\ pc = "a_parse"
    /\ IF IsJSON(fr.resultJSON)
       THEN ret' = ParseJSON(fr.resultJSON) /\ exc' = exc
       ELSE ret' = ret /\ exc' = SyntaxError
    /\ pc' = "a_finally"
    /\ UNCHANGED <<build, fr, arena, slot, asyncState, hostResult, delivered,
                   trace, pass, guestLog, hostLog, outcome, nCalls>>
    /\ UNCHANGED outsideWasm

\* Mutant: the release takes the length from the staging slot as it is
\* when the finally block runs.
ResponseRelease_SlotLength(f) ==
    IF Allocated(f.responsePtr)
    THEN <<Event("dealloc", "response", f.responsePtr, slot.len)>>
    ELSE <<>>

\* if (responsePtr > 0) deallocate(responsePtr, responseLen)
\* (host.ts 75-77).
ResponseRelease(f) ==
    IF Allocated(f.responsePtr)
    THEN <<Event("dealloc", "response", f.responsePtr, f.responseLen)>>
    ELSE <<>>

\* The inner finally block of the Asyncify path (host.ts 73-78).
AsyncFinally ==
    /\ pc = "a_finally"
    /\ arena' = Released(arena, ResponseRelease(fr))
    /\ trace' = trace \o ResponseRelease(fr)
    /\ pc' = "o_finally"
    /\ UNCHANGED <<build, fr, exc, ret, slot, asyncState, hostResult,
                   delivered, pass, guestLog, hostLog, outcome, nCalls>>
    /\ UNCHANGED outsideWasm

----------------------------------------------------------------------------
(* What execute gives its caller for a delivered result, per regime *)

\* The Synchronous path from the size check to the return
\* (host.ts 90-105): zero bytes give the synthesized failure response,
\* anything else is read back, decoded and parsed.
SyncOutcomeOf(text) ==
    IF IsEmptyResult(Len(Utf8Encode(text))) THEN Returned(EmptyResultResponse)
    ELSE IF IsJSON(Utf8Decode(Utf8Encode(text)))
         THEN Returned(ParseJSON(Utf8Decode(Utf8Encode(text))))
         ELSE Raised(SyntaxError)

\* The Asyncify path from the staged response to the return
\* (host.ts 61-71): the staged bytes are read, decoded and parsed; there is
\* no zero-length check before JSON.parse.
AsyncOutcomeOf(text) ==
    LET resultBytes == IF Len(Utf8Encode(text)) = 0 THEN <<>> ELSE Utf8Encode(text)
    IN  IF IsJSON(Utf8Decode(resultBytes))
        THEN Returned(ParseJSON(Utf8Decode(resultBytes)))
        ELSE Raised(SyntaxError)

\* An execute() has ended after the host delivered a result which
\* execute() retrieved.
EndedWithResult ==
    /\ pc = "idle"
    /\ fr.kind = "call"
    /\ outcome.kind # "none"
    /\ delivered # NoText
    /\ outcome # Raised("HostResultError")

\* The step-wise paths give what the two summaries say.
PathsAgreeWithSummaries ==
    EndedWithResult =>
        outcome = IF build = "sync" THEN SyncOutcomeOf(delivered)
                  ELSE AsyncOutcomeOf(delivered)

----------------------------------------------------------------------------
(* worker-override.js: execute, executeAsync and the message listener *)

\* The responses a host can send in a 'host_response' message: ok with
\* data, a failure with an error, a failure without one.
HostResponses ==
    { Response(TRUE, "d", "none"), Response(FALSE, "none", "m"),
      Response(FALSE, "none", "none") }

\* The requestIds a message can carry: every id a call can have been given,
\* and one that no call was given.
RequestIds == 1..(MaxCalls + 1)

Messages ==
    [type : {"host_response", "other"}, requestId : RequestIds,
     response : HostResponses]

PendingPromise == [state |-> "pending", value |-> NoResponse, err |-> "none"]

NoAnswer == [got |-> FALSE, response |-> NoResponse]

\* new Error(message.response.error ?? 'Unknown host error')
\* (worker-override.js 24): Error() turns its argument into a string, and
\* the error of a SimpleResponse is an object.
ErrorOf(response) ==
    IF response.error = "none" THEN "Unknown host error" ELSE "[object Object]"

\* message.response.ok ? pending.resolve(...) : pending.reject(...)
\* (worker-override.js 22-24).
Settle(response) ==
    IF response.ok
    THEN [state |-> "resolved", value |-> response, err |-> "none"]
    ELSE [state |-> "rejected", value |-> NoResponse, err |-> ErrorOf(response)]

\* execute(actionName, params, context) (worker-override.js 33-53);
\* crypto.randomUUID() gives an id no earlier call was given.
WorkerExecute(actionName, params) ==
    /\ build = "worker"
    /\ nCalls < MaxCalls
    /\ LET requestId == Len(promises) + 1
       IN  /\ pendingHostRequests' = pendingHostRequests \cup {requestId}
           /\ promises' = Append(promises, PendingPromise)
           /\ answered' = Append(answered, NoAnswer)
           /\ outbox' = Append(outbox, [type |-> "host_request",
                                        requestId |-> requestId,
                                        name |-> actionName, params |-> params])
    /\ nCalls' = nCalls + 1
    /\ UNCHANGED build
    /\ UNCHANGED wasmVars
    /\ UNCHANGED <<mem, hpc, hs, channelVars, ai>>

\* executeAsync(actionName, params, context) (worker-override.js 58-72).
WorkerExecuteAsync(actionName, params) ==
    /\ build = "worker"
    /\ nCalls < MaxCalls
    /\ outbox' = Append(outbox, [type |-> "host_cast", requestId |-> 0,
                                 name |-> actionName, params |-> params])
    /\ nCalls' = nCalls + 1
    /\ UNCHANGED <<build, pendingHostRequests, promises, answered>>
    /\ UNCHANGED wasmVars
    /\ UNCHANGED <<mem, hpc, hs, channelVars, ai>>

\* Mutant: the listener settles the oldest outstanding request, whatever
\* requestId the response carries.
WorkerOnMessage_OldestFirst(message) ==
    /\ build = "worker"
    /\ IF message.type # "host_response"
       THEN UNCHANGED workerVars
       ELSE IF message.requestId \notin pendingHostRequests
       THEN UNCHANGED workerVars
       ELSE LET oldest == CHOOSE id \in pendingHostRequests :
                              \A other \in pendingHostRequests : id <= other
            IN  /\ promises' = [promises EXCEPT ![oldest] =
                                                    Settle(message.response)]
                /\ answered' = [answered EXCEPT ![oldest] =
                                    [got |-> TRUE, response |-> message.response]]
                /\ pendingHostRequests' = pendingHostRequests \ {oldest}
                /\ outbox' = outbox
    /\ UNCHANGED <<build, nCalls>>
    /\ UNCHANGED wasmVars
    /\ UNCHANGED <<mem, hpc, hs, channelVars, ai>>

\* Mutant: the listener does not look at the type of the message.
WorkerOnMessage_AnyType(message) ==
    /\ build = "worker"
    /\ IF message.requestId \notin pendingHostRequests
       THEN UNCHANGED workerVars
       ELSE /\ promises' = [promises EXCEPT ![message.requestId] =
                                                Settle(message.response)]
            /\ answered' = [answered EXCEPT ![message.requestId] =
                                [got |-> TRUE, response |-> message.response]]
            /\ pendingHostRequests' = pendingHostRequests \ {message.requestId}
            /\ outbox' = outbox
    /\ UNCHANGED <<build, nCalls>>
    /\ UNCHANGED wasmVars
    /\ UNCHANGED <<mem, hpc, hs, channelVars, ai>>

\* Mutant: the listener leaves the entry of an answered request in the map.
WorkerOnMessage_KeepsEntry(message) ==
    /\ build = "worker"
    /\ IF message.type # "host_response"
       THEN UNCHANGED workerVars
       ELSE IF message.requestId \notin pendingHostRequests
       THEN UNCHANGED workerVars
       ELSE /\ promises' = [promises EXCEPT ![message.requestId] =
                                                Settle(message.response)]
            /\ answered' = [answered EXCEPT ![message.requestId] =
                                [got |-> TRUE, response |-> message.response]]
            /\ pendingHostRequests' = pendingHostRequests
            /\ outbox' = outbox
    /\ UNCHANGED <<build, nCalls>>
    /\ UNCHANGED wasmVars
    /\ UNCHANGED <<mem, hpc, hs, channelVars, ai>>

\* The 'message' listener (worker-override.js 13-27).
WorkerOnMessage(message) ==
    /\ build = "worker"
    /\ IF message.type # "host_response"
       THEN UNCHANGED workerVars
       ELSE IF message.requestId \notin pendingHostRequests
       THEN UNCHANGED workerVars
       ELSE /\ promises' = [promises EXCEPT ![message.requestId] =
                                                Settle(message.response)]
            /\ answered' = [answered EXCEPT ![message.requestId] =
                                [got |-> TRUE, response |-> message.response]]
            /\ pendingHostRequests' = pendingHostRequests \ {message.requestId}
            /\ outbox' = outbox
    /\ UNCHANGED <<build, nCalls>>
    /\ UNCHANGED wasmVars
    /\ UNCHANGED <<mem, hpc, hs, channelVars, ai>>

----------------------------------------------------------------------------

Next ==
    \/ \E a \in ActionNames, p \in ParamValues : GuestExecute(a, p)
    \/ \E a \in ActionNames, p \in ParamValues : GuestExecuteAsync(a, p)
    \/ MarshalActionName
    \/ MarshalParams
    \/ MarshalContext
    \/ ExecuteAsyncCast
    \/ SyncHostCall
    \/ SyncResultSize
    \/ SyncAllocResult
    \/ SyncGetResult
    \/ SyncReadParse
    \/ SyncFinally
    \/ OuterFinally
    \/ AsyncStopRewind
    \/ AsyncHostCall
    \/ HostCompletes
    \/ ReEnterExecute
    \/ AsyncReadResponse
    \/ AsyncClear
    \/ AsyncParse
    \/ AsyncFinally
    \/ \E a \in ActionNames, p \in ParamValues : WorkerExecute(a, p)
    \/ \E a \in ActionNames, p \in ParamValues : WorkerExecuteAsync(a, p)
    \/ \E message \in Messages : WorkerOnMessage(message)

Spec == Init /\ [][Next]_vars

\* The host answers the request with the given id: a 'host_response'
\* message carrying that requestId reaches the listener
\* (worker-override.js 13-27).
HostAnswers(id) ==
    \E response \in HostResponses :
        WorkerOnMessage([type |-> "host_response", requestId |-> id,
                         response |-> response])

\* The program of Spec with a host that eventually answers every request
\* that is outstanding.
SpecAnswered ==
    Init /\ [][Next]_vars /\ \A id \in RequestIds : WF_vars(HostAnswers(id))

----------------------------------------------------------------------------
(* internal/memory.ts called directly, and the bridge with arena faults *)

\* The texts handed to stringToPtr: empty, one to four UTF-8 bytes per
\* character ('a', e-acute, the euro sign, an emoji), and two characters.
Texts == { <<>>, <<97>>, <<233>>, <<8364>>, <<128512>>, <<233, 97>> }

\* The pointers a read is asked for: the null pointer, every offset a block
\* of the "memory" build can be at, and an offset that holds no block.
ReadPtrs == 0..(MaxHeld + 1)

\* The lengths a read is asked for.
ReadLens == {0} \cup {ByteLength(t) : t \in Texts}

\* const [ptr, len] = stringToPtr(str) (memory.ts 157-168).
AdapterStringToPtr(str, fault) ==
    /\ build = "memory"
    /\ Cardinality(Offsets \ FreeOffsets(arena)) < MaxHeld
    /\ LET r == stringToPtr(arena, str, "adapter", fault)
       IN  /\ arena' = r.arena
           /\ mem' = [op |-> "stringToPtr", str |-> str, ptr |-> r.ptr,
                      len |-> r.len, fault |-> fault, raised |-> r.raised,
                      out |-> <<>>, events |-> r.events,
                      held |-> mem.held \/ ~r.raised,
                      hstr |-> IF r.raised THEN mem.hstr ELSE str,
                      hptr |-> IF r.raised THEN mem.hptr ELSE r.ptr,
                      hlen |-> IF r.raised THEN mem.hlen ELSE r.len]
    /\ UNCHANGED <<build, pc, fr, exc, ret, slot, asyncState, hostResult,
                   delivered, trace, pass, guestLog, hostLog, outcome, nCalls>>
    /\ UNCHANGED <<workerVars, hpc, hs, channelVars, ai>>

\* readBufferSlice(ptr, len) (memory.ts 92-105), for any pointer.
AdapterReadBufferSlice(ptr, len, fault) ==
    /\ build = "memory"
    /\ LET r == readBufferSlice(arena, ptr, len, "adapter", fault = "read")
       IN  mem' = [mem EXCEPT !.op = "readBufferSlice", !.str = <<>>,
                              !.ptr = ptr, !.len = len, !.fault = fault,
                              !.raised = r.raised, !.out = r.bytes,
                              !.events = r.events]
    /\ UNCHANGED <<build, nCalls>>
    /\ UNCHANGED wasmVars
    /\ UNCHANGED <<workerVars, hpc, hs, channelVars, ai>>

\* readString(ptr, len) (memory.ts 126-138), for any pointer.
AdapterReadString(ptr, len, fault) ==
    /\ build = "memory"
    /\ LET r == readString(arena, ptr, len, "adapter", fault = "read")
       IN  mem' = [mem EXCEPT !.op = "readString", !.str = <<>>,
                              !.ptr = ptr, !.len = len, !.fault = fault,
                              !.raised = r.raised, !.out = r.text,
                              !.events = r.events]
    /\ UNCHANGED <<build, nCalls>>
    /\ UNCHANGED wasmVars
    /\ UNCHANGED <<workerVars, hpc, hs, channelVars, ai>>

InitFault ==
    /\ build \in {"sync", "async", "memory"}
    /\ Fresh
    /\ hpc = "off"
    /\ initialPayload = NoPayload

\* One guest call per program instance is followed, with every fault of
\* the arena primitives it can meet.
NextFault ==
    \/ nCalls = 0 /\ \E a \in ActionNames, p \in ParamValues : GuestExecute(a, p)
    \/ nCalls = 0 /\ \E a \in ActionNames, p \in ParamValues : GuestExecuteAsync(a, p)
    \/ MarshalActionName
    \/ MarshalParams
    \/ MarshalContext
    \/ MarshalFault
    \/ ExecuteAsyncCast
    \/ SyncHostCall
    \/ SyncResultSize
    \/ SyncAllocResult
    \/ SyncGetResult
    \/ SyncReadParse
    \/ SyncReadFault
    \/ SyncFinally
    \/ OuterFinally
    \/ AsyncStopRewind
    \/ AsyncHostCall
    \/ HostCompletes
    \/ ReEnterExecute
    \/ AsyncReadResponse
    \/ AsyncReadFault
    \/ AsyncClear
    \/ AsyncParse
    \/ AsyncFinally
    \/ \E str \in Texts, fault \in MarshalFaults : AdapterStringToPtr(str, fault)
    \/ \E ptr \in ReadPtrs, len \in ReadLens, fault \in {"none", "read"} :
          AdapterReadBufferSlice(ptr, len, fault)
    \/ \E ptr \in ReadPtrs, len \in ReadLens, fault \in {"none", "read"} :
          AdapterReadString(ptr, len, fault)

SpecFault == InitFault /\ [][NextFault]_vars

----------------------------------------------------------------------------
(* An arena whose allocator hands out offset 0 as well *)

\* The offsets __wasm.alloc can return when 0 is one of them.
OffsetsFromZero == 0..ArenaSize

InitZero ==
    /\ build \in {"sync", "async"}
    /\ FreshWith(OffsetsFromZero)
    /\ hpc = "off"
    /\ initialPayload = NoPayload

\* One guest call per program instance is followed.
NextZero ==
    \/ nCalls = 0 /\ \E a \in ActionNames, p \in ParamValues : GuestExecute(a, p)
    \/ nCalls = 0 /\ \E a \in ActionNames, p \in ParamValues : GuestExecuteAsync(a, p)
    \/ MarshalActionName
    \/ MarshalParams
    \/ MarshalContext
    \/ ExecuteAsyncCast
    \/ SyncHostCall
    \/ SyncResultSize
    \/ SyncAllocResult
    \/ SyncGetResult
    \/ SyncReadParse
    \/ SyncFinally
    \/ OuterFinally
    \/ AsyncStopRewind
    \/ AsyncHostCall
    \/ HostCompletes
    \/ ReEnterExecute
    \/ AsyncReadResponse
    \/ AsyncClear
    \/ AsyncParse
    \/ AsyncFinally

SpecZero == InitZero /\ [][NextZero]_vars

----------------------------------------------------------------------------
(* index.ts: handle, in the WASM builds; host.ts: getContext *)

\* '__done__' (index.ts 186, 192).
DoneAction == <<95, 95, 100, 111, 110, 101, 95, 95>>

\* 'runtime/script:execute' (index.ts 136).
ScriptAction ==
    <<114, 117, 110, 116, 105, 109, 101, 47, 115, 99, 114, 105, 112, 116,
      58, 101, 120, 101, 99, 117, 116, 101>>

\* The payloads a host can hold for the instance: none, the requests 'q'
\* and 'w' (documents '{' request '}'), and a truncated document.
InputTexts == { <<>>, <<123, 113, 125>>, <<123, 119, 125>>, <<123>> }

\* JSON.parse(inputText) succeeds (index.ts 120).
IsRequestJSON(text) == Len(text) = 3 /\ text[1] = 123 /\ text[3] = 125

\* What the user's handler can do when it ends: return data, throw an
\* Error, return a promise that rejects with an Error, or reject with no
\* reason (Promise.reject()).
HandlerOutcomes ==
    { [kind |-> "return", value |-> "d", thrown |-> "none"],
      [kind |-> "throw", value |-> "h", thrown |-> "Error"],
      [kind |-> "reject", value |-> "h", thrown |-> "Error"],
      [kind |-> "reject", value |-> "none", thrown |-> "undefined"] }

\* What can fail while the payload is pulled: nothing, __host.getContext
\* raises, __wasm.read_string raises.
ContextFaults == {"none", "host", "read"}

\* getContext (host.ts 156-180): whether it raises, the bytes it returns,
\* the arena afterwards and the foreign calls made; `text` is the payload
\* the host holds and `fault` names the primitive that raises.
getContext(ar, text, fault) ==
    LET size == ByteLength(text)
        ptr == allocate(ar, size)
        held == [AfterAlloc(ar, size) EXCEPT ![ptr].data =
                    IF fault = "host" THEN <<>> ELSE Utf8Encode(text)]
        r == readBufferSlice(held, ptr, size, "input", fault = "read")
    IN  IF size = 0
        THEN [raised |-> FALSE, bytes |-> <<>>, arena |-> ar,
              events |-> <<Event("getContextSize", "host", 0, 0)>>]
        ELSE IF fault = "host"
        THEN [raised |-> TRUE, bytes |-> <<>>,
              arena |-> wasm_dealloc(held, ptr, size),
              events |-> <<Event("getContextSize", "host", 0, size),
                           Event("alloc", "input", ptr, size),
                           Event("getContext", "host", ptr, 0),
                           Event("dealloc", "input", ptr, size)>>]
        ELSE [raised |-> r.raised, bytes |-> r.bytes,
              arena |-> wasm_dealloc(held, ptr, size),
              events |-> <<Event("getContextSize", "host", 0, size),
                           Event("alloc", "input", ptr, size),
                           Event("getContext", "host", ptr, 0)>>
                         \o r.events
                         \o <<Event("dealloc", "input", ptr, size)>>]

\* handle() calls host.execute or host.executeAsync: the entry of
\* execute / executeAsync (host.ts 20-32, 134-136).
Enter(kind, actionName, params) ==
    /\ fr' = NewFrame(kind, actionName, params)
    /\ pc' = "m_name"
    /\ exc' = "none"
    /\ ret' = NoResponse
    /\ trace' = <<>>
    /\ pass' = 1
    /\ delivered' = NoText
    /\ outcome' = NoOutcome
    /\ guestLog' = Append(guestLog, GuestCall(kind, actionName, params))
    /\ UNCHANGED <<build, arena, slot, asyncState, hostResult, hostLog, nCalls>>
    /\ UNCHANGED <<workerVars, mem, channelVars, ai>>

\* handle() does something that touches no state of the bridge.
Within ==
    /\ UNCHANGED <<build, nCalls, workerVars, mem, channelVars, ai>>
    /\ UNCHANGED wasmVars

\* returnError(message, context) (index.ts 181-187).
returnError(message) ==
    Enter("cast", DoneAction, [tag |-> "done", ok |-> FALSE, value |-> message])

\* returnSuccess(data, context) (index.ts 189-193).
returnSuccess(data) ==
    Enter("cast", DoneAction, [tag |-> "done", ok |-> TRUE, value |-> data])

\* throw inside the try block of handle() (index.ts 112-155).
Throw(kind, message) ==
    /\ hpc' = "catch"
    /\ hs' = [hs EXCEPT !.thrown = [kind |-> kind, message |-> message]]
    /\ Within

\* readInputFromHost (index.ts 170-179) in a WASM build: the request of the
\* pre-placed payload when there is one, else host.getContext() and
\* TextDecoder.decode.
readInputFromHost(ar, payload, text, fault) ==
    IF HasInitialPayload(payload)
    THEN [raised |-> FALSE, text |-> StringifyRequest(payload), arena |-> ar,
          events |-> <<>>]
    ELSE LET r == getContext(ar, text, fault)
         IN  [raised |-> r.raised,
              text |-> IF r.raised THEN <<>> ELSE Utf8Decode(r.bytes),
              arena |-> r.arena, events |-> r.events]

\* Ghost: the size __host.getContextSize() reported, -1 when the host was
\* not asked.
ReportedSize(events) == IF events = <<>> THEN -1 ELSE events[1].len

\* const inputText = readInputFromHost() (index.ts 113).
HandleReadInput(text, fault) ==
    /\ hpc = "input"
    /\ LET r == readInputFromHost(arena, initialPayload, text, fault)
       IN  /\ arena' = r.arena
           /\ trace' = r.events
           /\ IF r.raised
              THEN /\ hpc' = "catch"
                   /\ hs' = [hs EXCEPT !.size = ReportedSize(r.events),
                                       !.thrown = [kind |-> "Error",
                                                   message |-> "HostContextError"]]
              ELSE /\ hpc' = "parse"
                   /\ hs' = [hs EXCEPT !.input = r.text, !.read = TRUE,
                                       !.size = ReportedSize(r.events)]
    /\ UNCHANGED <<build, pc, fr, exc, ret, slot, asyncState, hostResult,
                   delivered, pass, guestLog, hostLog, outcome, nCalls>>
    /\ UNCHANGED <<workerVars, mem, channelVars, ai>>

\* Mutant: the constrained build runs the handler itself.
Delegates_Never(b) == FALSE

\* if (__ASYNC_BUILD__) (index.ts 125).
Delegates(b) == b = "async"

\* Mutant: an empty payload text is taken for a request.
NoInput_Never(inputText) == FALSE

\* if (!inputText) (index.ts 86, 115).
NoInput(inputText) == inputText = <<>>

\* From the check of inputText to the dispatch (index.ts 115-139, 150-151).
HandleDispatch ==
    /\ hpc = "parse"
    /\ IF NoInput(hs.input)
       THEN /\ returnError("no input payload provided by the host environment")
            /\ hpc' = "signal"
            /\ hs' = hs
       ELSE IF ~IsRequestJSON(hs.input)
       THEN /\ hpc' = "catch"
            /\ hs' = [hs EXCEPT !.parsed = TRUE,
                                !.thrown = [kind |-> "Error",
                                            message |-> SyntaxError]]
            /\ Within
       ELSE IF Delegates(build)
       THEN /\ Enter("call", ScriptAction,
                     [tag |-> "script", request |-> hs.input[2]])
            /\ hpc' = "delegated"
            /\ hs' = [hs EXCEPT !.parsed = TRUE, !.request = hs.input[2]]
       ELSE /\ hpc' = "handler"
            /\ hs' = [hs EXCEPT !.parsed = TRUE, !.request = hs.input[2],
                                !.handlerCalled = TRUE]
            /\ Within

\* The user's handler ends and `await resultPromise` settles
\* (index.ts 151-154).
HandlerEnds(o) ==
    /\ hpc = "handler"
    /\ pc = "idle"
    /\ asyncState = 0
    /\ IF o.kind = "return"
       THEN /\ returnSuccess(o.value)
            /\ hpc' = "signal"
            /\ hs' = hs
       ELSE Throw(o.thrown, o.value)

\* Mutant: the failure of the delegated run is reported without the
\* host's message.
DelegatedError_Default(result) == "Unconstrained script execution failed"

\* result.error?.message ?? 'Unconstrained script execution failed'
\* (index.ts 142).
DelegatedError(result) ==
    IF result.error = "none" THEN "Unconstrained script execution failed"
    ELSE result.error

\* host.execute('runtime/script:execute', ...) has ended (index.ts 136-146).
HandleAfterDelegate ==
    /\ hpc = "delegated"
    /\ pc = "idle"
    /\ asyncState = 0
    /\ outcome.kind # "none"
    /\ IF outcome.kind = "raise"
       THEN /\ hpc' = "catch"
            /\ hs' = [hs EXCEPT !.delegated = outcome,
                                !.thrown = [kind |-> "Error", message |-> outcome.err]]
            /\ Within
       ELSE IF ~outcome.value.ok
       THEN /\ hpc' = "catch"
            /\ hs' = [hs EXCEPT !.delegated = outcome,
                                !.thrown = [kind |-> "Error",
                                            message |-> DelegatedError(outcome.value)]]
            /\ Within
       ELSE /\ returnSuccess(outcome.value.data)
            /\ hpc' = "signal"
            /\ hs' = [hs EXCEPT !.delegated = outcome]

\* catch (e) { returnError(e.message, context) } (index.ts 156-160).
\* Reading .message of undefined raises a TypeError inside the catch
\* block, which leaves handle().
HandleCatch ==
    /\ hpc = "catch"
    /\ IF hs.thrown.kind = "Error"
       THEN /\ returnError(hs.thrown.message)
            /\ hpc' = "signal"
            /\ hs' = [hs EXCEPT !.caught = @ + 1, !.inCatch = TRUE]
       ELSE /\ hpc' = "ended"
            /\ hs' = [hs EXCEPT !.caught = @ + 1, !.inCatch = TRUE,
                                !.rejected = TRUE]
            /\ Within

\* host.executeAsync('__done__', ...) has ended (index.ts 186, 192): handle()
\* returns; had the signal raised, the exception would reach the catch
\* block, or leave handle() when it was raised in the catch block.
HandleSignalled ==
    /\ hpc = "signal"
    /\ pc = "idle"
    /\ outcome.kind # "none"
    /\ IF outcome.kind = "return"
       THEN hpc' = "ended" /\ hs' = hs
       ELSE IF hs.inCatch
       THEN hpc' = "ended" /\ hs' = [hs EXCEPT !.rejected = TRUE]
       ELSE /\ hpc' = "catch"
            /\ hs' = [hs EXCEPT !.thrown = [kind |-> "Error", message |-> outcome.err]]
    /\ Within

InitHandle ==
    /\ build \in {"sync", "async"}
    /\ Fresh
    /\ hpc = "input"
    /\ initialPayload \in {NoPayload, PlacedRequest}

\* handle() runs once per program instance; the user's handler makes at
\* most one call of its own.
NextHandle ==
    \/ \E text \in InputTexts, fault \in ContextFaults :
           HandleReadInput(text, fault)
    \/ HandleDispatch
    \/ \E o \in HandlerOutcomes : HandlerEnds(o)
    \/ HandleAfterDelegate
    \/ HandleCatch
    \/ HandleSignalled
    \/ nCalls = 0 /\ \E a \in ActionNames, p \in ParamValues : GuestExecute(a, p)
    \/ nCalls = 0 /\ \E a \in ActionNames, p \in ParamValues : GuestExecuteAsync(a, p)
    \/ MarshalActionName
    \/ MarshalParams
    \/ MarshalContext
    \/ ExecuteAsyncCast
    \/ SyncHostCall
    \/ SyncResultSize
    \/ SyncAllocResult
    \/ SyncGetResult
    \/ SyncReadParse
    \/ SyncFinally
    \/ OuterFinally
    \/ AsyncStopRewind
    \/ AsyncHostCall
    \/ HostCompletes
    \/ ReEnterExecute
    \/ AsyncReadResponse
    \/ AsyncClear
    \/ AsyncParse
    \/ AsyncFinally

SpecHandle == InitHandle /\ [][NextHandle]_vars

----------------------------------------------------------------------------
(* build.js: the delegated wrapper; index.ts: handle, inside the worker *)

\* 'CRITICAL: Script worker context is missing the promise channel.'
\* (index.ts 102).
MissingChannel == "CRITICAL: Script worker context is missing the promise channel."

\* The message of the Error made at index.ts 88.
NoInputMessage == "no input payload provided by the host environment"

\* What the import of the user's application raises when it raises
\* (build.js 77).
ImportError == "ImportError"

\* What the user's handler can do inside the worker: return a promise that
\* resolves with data, return a promise that rejects with an Error, or
\* throw an Error before it returns anything.
WorkerHandlerOutcomes == {o \in HandlerOutcomes : o.thrown # "undefined"}

\* A promise that has not settled; `will` is how it is going to settle.
Pending(will) == [state |-> "pending", value |-> "none", will |-> will]

\* Mutant: the promise made for the error is a resolved one.
RejectedWith_Resolved(error) ==
    [state |-> "resolved", value |-> error,
     will |-> [kind |-> "return", value |-> error, thrown |-> "Error"]]

\* Promise.reject(error) (index.ts 90).
RejectedWith(error) ==
    [state |-> "rejected", value |-> error,
     will |-> [kind |-> "reject", value |-> error, thrown |-> "Error"]]

\* readInputFromHost (index.ts 170-179) inside the worker: the request of
\* the pre-placed payload, else the empty buffer of the getContext stub
\* (worker-override.js 78-81), decoded.
WorkerReadInput(payload) ==
    IF HasInitialPayload(payload) THEN StringifyRequest(payload)
    ELSE Utf8Decode(<<>>)

\* One settled or unsettled result of a handle() call or a wrapper run.
NoResult == [kind |-> "none", value |-> "none"]
Resolved(value) == [kind |-> "resolved", value |-> value]
Rejected(error) == [kind |-> "rejected", value |-> error]

\* The wrapper is called (build.js 67-72): a new channel object is made and
\* assigned to globalThis.__SIMPLE_PROMISE_CHANNEL__, whatever was there;
\* then the import of the user's application begins (build.js 77).  A run
\* can start while an earlier one waits at one of its awaits.
WrapperStart(k) ==
    /\ build = "worker"
    /\ runs[k].pc = "idle"
    /\ \A j \in 1..(k - 1) : runs[j].pc # "idle"
    /\ promiseChannel' = k
    /\ runs' = [runs EXCEPT ![k].pc = "import", ![k].found = promiseChannel]
    /\ UNCHANGED <<initialPayload, handlerPromises, handleCalls>>
    /\ UNCHANGED <<build, nCalls, workerVars, mem, hpc, hs, ai>>
    /\ UNCHANGED wasmVars

\* A program that a run has imported calls simple.Handle(handler), during
\* the import or later: handle() in the worker build (index.ts 80-108).
\* Its body has no await, the call runs to its end in one step; `o` is
\* what the handler does.
ProgramCallsHandle(o) ==
    /\ build = "worker"
    /\ \E k \in 1..MaxRuns : runs[k].pc # "idle"
    /\ Len(handleCalls) < MaxEntries
    /\ LET inputText == WorkerReadInput(initialPayload)
           id == Len(handlerPromises) + 1
           call == [input |-> inputText, channel |-> promiseChannel,
                    before |-> IF promiseChannel = 0 THEN 0
                               ELSE runs[promiseChannel].promise,
                    handlerCalled |-> FALSE, outcome |-> "none",
                    promise |-> 0, placed |-> FALSE, result |-> NoResult]
       IN  IF NoInput(inputText)
           THEN IF promiseChannel # 0
                THEN /\ handlerPromises' =
                          Append(handlerPromises, RejectedWith(NoInputMessage))
                     /\ runs' = [runs EXCEPT ![promiseChannel].promise = id,
                                             ![promiseChannel].placed = @ + 1]
                     /\ handleCalls' = Append(handleCalls,
                          [call EXCEPT !.placed = TRUE, !.promise = id,
                                       !.result = Rejected(NoInputMessage)])
                ELSE /\ handleCalls' = Append(handleCalls,
                          [call EXCEPT !.result = Rejected(NoInputMessage)])
                     /\ UNCHANGED <<runs, handlerPromises>>
           ELSE IF o.kind = "throw"
           THEN /\ handleCalls' = Append(handleCalls,
                     [call EXCEPT !.handlerCalled = TRUE, !.outcome = o.kind,
                                  !.result = Rejected(o.value)])
                /\ UNCHANGED <<runs, handlerPromises>>
           ELSE IF promiseChannel = 0
           THEN /\ handlerPromises' = Append(handlerPromises, Pending(o))
                /\ handleCalls' = Append(handleCalls,
                     [call EXCEPT !.handlerCalled = TRUE, !.outcome = o.kind,
                                  !.promise = id,
                                  !.result = Rejected(MissingChannel)])
                /\ UNCHANGED runs
           ELSE /\ handlerPromises' = Append(handlerPromises, Pending(o))
                /\ runs' = [runs EXCEPT ![promiseChannel].promise = id,
                                        ![promiseChannel].placed = @ + 1]
                /\ handleCalls' = Append(handleCalls,
                     [call EXCEPT !.handlerCalled = TRUE, !.outcome = o.kind,
                                  !.promise = id, !.placed = TRUE,
                                  !.result = Resolved("undefined")])
    /\ UNCHANGED <<promiseChannel, initialPayload>>
    /\ UNCHANGED <<build, nCalls, workerVars, mem, hpc, hs, ai>>
    /\ UNCHANGED wasmVars

\* A promise the user's handler returned settles.
HandlerSettles(id) ==
    /\ build = "worker"
    /\ id \in DOMAIN handlerPromises
    /\ handlerPromises[id].state = "pending"
    /\ handlerPromises' = [handlerPromises EXCEPT
          ![id].state = IF handlerPromises[id].will.kind = "return"
                        THEN "resolved" ELSE "rejected",
          ![id].value = handlerPromises[id].will.value]
    /\ UNCHANGED <<promiseChannel, initialPayload, runs, handleCalls>>
    /\ UNCHANGED <<build, nCalls, workerVars, mem, hpc, hs, ai>>
    /\ UNCHANGED wasmVars

\* Mutant: the slot is removed only when the wrapper returns a value.
DeleteChannel_OnReturnOnly(channel, exit) ==
    IF exit = "return" THEN 0 ELSE channel

\* finally { delete globalThis.__SIMPLE_PROMISE_CHANNEL__ } (build.js
\* 87-90): what the global location holds once the wrapper has left its
\* try block by `exit`.
DeleteChannel(channel, exit) == 0

\* Run k ends with `result`, through the finally block (build.js 82-90).
WrapperEnds(k, result, exit) ==
    /\ runs' = [runs EXCEPT ![k].pc = "ended", ![k].result = result,
                            ![k].left = DeleteChannel(promiseChannel, exit)]
    /\ promiseChannel' = DeleteChannel(promiseChannel, exit)

\* `await import(...)` is over, the user's application has run
\* (build.js 77-86): the wrapper awaits channel.promise when there is one,
\* else it warns and returns undefined.
ImportEnds(k) ==
    /\ build = "worker"
    /\ runs[k].pc = "import"
    /\ IF runs[k].promise # 0
       THEN /\ runs' = [runs EXCEPT ![k].pc = "await",
                                    ![k].awaited = runs[k].promise]
            /\ UNCHANGED promiseChannel
       ELSE WrapperEnds(k, Resolved("undefined"), "return")
    /\ UNCHANGED <<initialPayload, handlerPromises, handleCalls>>
    /\ UNCHANGED <<build, nCalls, workerVars, mem, hpc, hs, ai>>
    /\ UNCHANGED wasmVars

\* The import of the user's application raises (build.js 77, 87-90).
ImportRaises(k) ==
    /\ build = "worker"
    /\ runs[k].pc = "import"
    /\ WrapperEnds(k, Rejected(ImportError), "raise")
    /\ UNCHANGED <<initialPayload, handlerPromises, handleCalls>>
    /\ UNCHANGED <<build, nCalls, workerVars, mem, hpc, hs, ai>>
    /\ UNCHANGED wasmVars

\* The promise the wrapper awaits has settled (build.js 82, 87-90).
WrapperSettles(k) ==
    /\ build = "worker"
    /\ runs[k].pc = "await"
    /\ LET p == handlerPromises[runs[k].awaited]
       IN  /\ p.state # "pending"
           /\ IF p.state = "resolved"
              THEN WrapperEnds(k, Resolved(p.value), "return")
              ELSE WrapperEnds(k, Rejected(p.value), "raise")
    /\ UNCHANGED <<initialPayload, handlerPromises, handleCalls>>
    /\ UNCHANGED <<build, nCalls, workerVars, mem, hpc, hs, ai>>
    /\ UNCHANGED wasmVars

InitWorker ==
    /\ build = "worker"
    /\ Fresh
    /\ hpc = "off"
    /\ initialPayload \in {NoPayload, PlacedRequest}

\* The script worker: runs of the wrapper, the programs they import and
\* the promises of the handlers.
NextWorker ==
    \/ \E k \in 1..MaxRuns : WrapperStart(k)
    \/ \E o \in WorkerHandlerOutcomes : ProgramCallsHandle(o)
    \/ \E id \in 1..MaxEntries : HandlerSettles(id)
    \/ \E k \in 1..MaxRuns : ImportEnds(k)
    \/ \E k \in 1..MaxRuns : ImportRaises(k)
    \/ \E k \in 1..MaxRuns : WrapperSettles(k)

SpecWorker == InitWorker /\ [][NextWorker]_vars

----------------------------------------------------------------------------
(* ai.ts: extract / summarize and the upload of pending files *)

\* The two host actions an AI operation calls (ai.ts 241, 306).
UploadAction == "action:documents/upload-ephemeral"

OrchestratorAction == "logic:dev.simple.system/ai-orchestrator"

\* The operations of _executeAIOperation (ai.ts 265).
Operations == {"extract", "summarize"}

\* A value handed to an AI operation as input.  kind is "string", "object"
\* or "array"; pending and file_hash are the properties of that name
\* (file_hash 0: absent or empty); items are the elements of an array, or
\* the values of the other properties of an object.
Value(kind, pending, file_hash, items) ==
    [kind |-> kind, pending |-> pending, file_hash |-> file_hash,
     items |-> items]

TextValue == Value("string", FALSE, 0, <<>>)

\* A DocumentHandle of a stored file (types.ts 12-27).
StoredHandle == Value("object", FALSE, 7, <<>>)

\* A DocumentHandle of a file that is not uploaded yet: pending: true and
\* the hash of its content.
PendingHandle(file_hash) == Value("object", TRUE, file_hash, <<>>)

\* A plain object with one property, whose value is v.
Holder(v) == Value("object", FALSE, 0, <<v>>)

ArrayOf(items) == Value("array", FALSE, 0, items)

\* The handle the host returns for the n-th upload call it receives.
EphemeralHandle(n) == Value("object", FALSE, 100 + n, <<>>)

\* The inputs of the operations followed: text, handles, a pending handle
\* inside a plain object, an object with pending: true and no file_hash,
\* and arrays of these with pending handles at nesting depths 1 to 3.
AIInputs ==
    { TextValue,
      StoredHandle,
      PendingHandle(1),
      Value("object", TRUE, 0, <<>>),
      Holder(PendingHandle(1)),
      ArrayOf(<<>>),
      ArrayOf(<<PendingHandle(1)>>),
      ArrayOf(<<PendingHandle(1), TextValue, PendingHandle(2)>>),
      ArrayOf(<<PendingHandle(1), PendingHandle(1)>>),
      ArrayOf(<<ArrayOf(<<PendingHandle(1)>>), PendingHandle(2)>>),
      ArrayOf(<<ArrayOf(<<ArrayOf(<<PendingHandle(1)>>)>>)>>),
      ArrayOf(<<TextValue,
                ArrayOf(<<StoredHandle,
                          ArrayOf(<<PendingHandle(1), PendingHandle(2)>>)>>)>>),
      ArrayOf(<<Holder(PendingHandle(1))>>) }

\* obj === null || typeof obj !== 'object' (ai.ts 236), negated.
IsObject(obj) == obj.kind # "string"

\* obj.pending === true && obj.file_hash (ai.ts 240).
IsPendingHandle(obj) == obj.pending /\ obj.file_hash # 0

\* Mutant: no value is recognised as an array.
IsArray_Never(obj) == FALSE

\* Array.isArray(obj) (ai.ts 250).
IsArray(obj) == obj.kind = "array"

RECURSIVE PendingUploads(_, _)
RECURSIVE UploadsOfItems(_, _, _)

\* The hostExecute calls _uploadPendingFiles(obj) makes before it first
\* gives up control, in order: an async function runs up to its first await
\* when it is called, so obj.map(...) starts the upload of every element
\* before any response is looked at (ai.ts 235-255).  path is where obj
\* lies in the input of the operation.
PendingUploads(obj, path) ==
    IF ~IsObject(obj) THEN <<>>
    ELSE IF IsPendingHandle(obj)
    THEN << [name |-> UploadAction, path |-> path, params |-> obj,
             operation |-> "none"] >>
    ELSE IF IsArray(obj) THEN UploadsOfItems(obj.items, path, 1)
    ELSE <<>>

\* obj.map(item => _uploadPendingFiles(item, context)) from element i on
\* (ai.ts 251).
UploadsOfItems(items, path, i) ==
    IF i > Len(items) THEN <<>>
    ELSE PendingUploads(items[i], Append(path, i))
            \o UploadsOfItems(items, path, i + 1)

RECURSIVE uploadPendingFiles(_, _, _)

\* What the promise of _uploadPendingFiles(obj) resolves to when every
\* upload was answered with ok = true; data(path) is response.data of the
\* upload made for the handle at path (ai.ts 235-255).
uploadPendingFiles(obj, path, data) ==
    IF ~IsObject(obj) THEN obj
    ELSE IF IsPendingHandle(obj) THEN data[path]
    ELSE IF IsArray(obj)
    THEN [obj EXCEPT !.items =
             [i \in DOMAIN obj.items |->
                 uploadPendingFiles(obj.items[i], Append(path, i), data)]]
    ELSE obj

\* A call the host has not answered yet.
Unanswered == [got |-> FALSE, ok |-> FALSE, data |-> "none", message |-> ""]

\* The responses the host can give to the i-th call of an operation:
\* ok = true with data, ok = false with an error message, ok = false
\* without one.
AIResponses(i) ==
    { [got |-> TRUE, ok |-> TRUE, data |-> EphemeralHandle(i), message |-> ""],
      [got |-> TRUE, ok |-> FALSE, data |-> "none", message |-> "m"],
      [got |-> TRUE, ok |-> FALSE, data |-> "none", message |-> ""] }

\* response.error?.message || fallback (ai.ts 244, 309).
ErrorMessage(response, fallback) ==
    IF response.message # "" THEN response.message ELSE fallback

\* What an AI operation leaves alone.
OutsideAI ==
    /\ UNCHANGED <<build, nCalls, workerVars, mem, hpc, hs, channelVars>>
    /\ UNCHANGED wasmVars

\* extract / summarize, after their validation, call _executeAIOperation,
\* which runs up to the await of _uploadPendingFiles(input): every upload
\* call the input needs is made (ai.ts 264-281, 235-255).
AIStart(operation, input) ==
    /\ ai.pc = "idle"
    /\ LET uploads == PendingUploads(input, <<>>)
       IN  ai' = [pc |-> "uploading", operation |-> operation,
                  input |-> input, calls |-> uploads,
                  answers |-> [i \in DOMAIN uploads |-> Unanswered],
                  outcome |-> [kind |-> "none", value |-> "none"]]
    /\ OutsideAI

\* The host answers a call of the operation; the answers come in any order.
HostAnswersCall(i, response) ==
    /\ i \in DOMAIN ai.calls
    /\ ~ai.answers[i].got
    /\ ai' = [ai EXCEPT !.answers[i] = response]
    /\ OutsideAI

\* if (!response.ok) throw new Error(...) in one of the uploads
\* (ai.ts 243-245): Promise.all rejects, and so does the operation at its
\* await (ai.ts 281).
UploadRaises(i) ==
    /\ ai.pc = "uploading"
    /\ i \in DOMAIN ai.calls
    /\ ai.answers[i].got /\ ~ai.answers[i].ok
    /\ ai' = [ai EXCEPT !.pc = "done",
                        !.outcome = [kind |-> "raise",
                                     value |-> ErrorMessage(ai.answers[i],
                                         "Failed to upload pending file")]]
    /\ OutsideAI

\* Every upload was answered with ok = true: processedInput is there, the
\* payload is built and the orchestrator is called (ai.ts 281-306).
CallOrchestrator ==
    /\ ai.pc = "uploading"
    /\ \A i \in DOMAIN ai.calls : ai.answers[i].got /\ ai.answers[i].ok
    /\ LET data == [path \in {ai.calls[i].path : i \in DOMAIN ai.calls} |->
                       ai.answers[CHOOSE i \in DOMAIN ai.calls :
                                      ai.calls[i].path = path].data]
           processedInput == uploadPendingFiles(ai.input, <<>>, data)
       IN  ai' = [ai EXCEPT
                    !.pc = "calling",
                    !.calls = Append(@, [name |-> OrchestratorAction,
                                         path |-> <<>>,
                                         params |-> processedInput,
                                         operation |-> ai.operation]),
                    !.answers = Append(@, Unanswered)]
    /\ OutsideAI

\* The orchestrator's response: the operation raises when ok is false and
\* returns the transformed data otherwise (ai.ts 308-325).
OperationEnds ==
    /\ ai.pc = "calling"
    /\ ai.answers[Len(ai.calls)].got
    /\ ai' = [ai EXCEPT
                !.pc = "done",
                !.outcome =
                    IF ai.answers[Len(ai.calls)].ok
                    THEN [kind |-> "return", value |-> "AIExecutionResult"]
                    ELSE [kind |-> "raise",
                          value |-> ErrorMessage(ai.answers[Len(ai.calls)],
                                                 "AI operation failed.")]]
    /\ OutsideAI

InitAI ==
    /\ build = "sync"
    /\ Fresh
    /\ hpc = "off"
    /\ initialPayload = NoPayload

\* One extract or summarize operation and the host that answers its calls.
NextAI ==
    \/ \E operation \in Operations, input \in AIInputs : AIStart(operation, input)
    \/ \E i \in 1..Len(ai.calls) : \E response \in AIResponses(i) :
          HostAnswersCall(i, response)
    \/ \E i \in 1..Len(ai.calls) : UploadRaises(i)
    \/ CallOrchestrator
    \/ OperationEnds

SpecAI == InitAI /\ [][NextAI]_vars

----------------------------------------------------------------------------
(* Reading the trace of one logical invocation *)

\* The positions of the trace that hold a call of `op` at `site`.
At(op, site) == {i \in DOMAIN trace : trace[i].op = op /\ trace[i].site = site}

\* Those among them made by entry number n.
AtPass(op, site, n) == {i \in At(op, site) : trace[i].pass = n}

\* An execute() entry has run to its end (returned or raised).
ExecuteEnded == pc = "idle" /\ fr.kind = "call" /\ outcome.kind # "none"

ParamSites == {"actionName", "params", "context"}

\* The host primitives of the trace, in order.
HostOps ==
    LET hostEvents == SelectSeq(trace, LAMBDA e : e.site = "host")
    IN  [i \in DOMAIN hostEvents |-> hostEvents[i].op]

----------------------------------------------------------------------------
(* Claims *)

\* C1: in the CooperativeSuspend regime one logical execute() that is
\* entered with state Normal and entered again with state Rewinding issues
\* __host.call exactly once: the first entry issues it, the Rewinding entry
\* calls asyncify_stop_rewind() once and issues no __host.call.
C1_HostCallOncePerInvocation ==
    (build = "async" /\ fr.kind = "call") =>
        /\ Cardinality(At("call", "host")) <= 1
        /\ pass = 2 =>
              /\ Cardinality(AtPass("call", "host", 1)) = 1
              /\ AtPass("call", "host", 2) = {}
        /\ (pass = 2 /\ pc \in {"a_read", "a_clear", "a_parse", "a_finally",
                                "o_finally", "idle"}) =>
              /\ Cardinality(At("asyncify_stop_rewind", "substrate")) = 1
              /\ asyncState = 0

\* C1 witness: an invocation that was unwound and rewound has returned.
C1_Witness ==
    /\ build = "async"
    /\ ExecuteEnded
    /\ pass = 2
    /\ outcome.kind = "return"
    /\ At("asyncify_stop_rewind", "substrate") # {}

\* C2: when an execute() entry whose three parameter buffers were allocated
\* ends, by a return, by the empty-result return or by an exception, each
\* of the three buffers has been released by exactly one dealloc with the
\* pointer and the length it was allocated with.
C2_ParamsReleasedOnce ==
    ExecuteEnded =>
        \A site \in ParamSites :
            \A i \in AtPass("alloc", site, pass) :
                /\ Cardinality({j \in AtPass("dealloc", site, pass) : j > i}) = 1
                /\ \A j \in DOMAIN trace :
                      (trace[j].op = "dealloc" /\ trace[j].pass = pass
                          /\ trace[j].ptr = trace[i].ptr) =>
                      (trace[j].site = site /\ trace[j].len = trace[i].len /\ j > i)
                /\ ~arena[trace[i].ptr].live

\* C2 witness: an execute() that allocated its three buffers ended with the
\* exception of a failed JSON.parse.
C2_Witness ==
    /\ ExecuteEnded
    /\ outcome = Raised(SyntaxError)
    /\ \A site \in ParamSites : AtPass("alloc", site, pass) # {}

\* C3: in the Synchronous regime, when the host reports a result size
\* n # 0, execute() allocates one result buffer of n bytes and releases it
\* with exactly one dealloc(ptr, n), also when getExecutionResult raises or
\* the bytes are not JSON.
C3_ResultBufferReleasedOnce ==
    (build = "sync" /\ fr.kind = "call") =>
        /\ Cardinality(At("alloc", "result")) <= 1
        /\ Cardinality(At("dealloc", "result")) <= 1
        /\ (ExecuteEnded /\ fr.resultLen # 0) =>
              /\ fr.resultLen = Len(Utf8Encode(delivered))
              /\ Cardinality(At("alloc", "result")) = 1
              /\ Cardinality(At("dealloc", "result")) = 1
              /\ \A i \in At("alloc", "result"), j \in At("dealloc", "result") :
                    /\ i < j
                    /\ trace[i].len = fr.resultLen
                    /\ trace[j].ptr = trace[i].ptr
                    /\ trace[j].len = fr.resultLen
                    /\ ~arena[trace[i].ptr].live

\* C3 witness: a synchronous execute() ended by getExecutionResult raising,
\* after a result buffer of five bytes was allocated.
C3_Witness ==
    /\ build = "sync"
    /\ ExecuteEnded
    /\ outcome = Raised("HostResultError")
    /\ fr.resultLen = 5

\* C4: in the Synchronous regime, when getExecutionResultSize() returns 0,
\* execute() returns {ok: false, error: {message: 'Host returned an empty
\* result.'}} and issues no alloc, no getExecutionResult and no dealloc for
\* a result buffer.
C4_EmptyResultNoBuffer ==
    (build = "sync" /\ fr.kind = "call"
        /\ \E i \in At("getExecutionResultSize", "host") : trace[i].len = 0) =>
        /\ At("alloc", "result") = {}
        /\ At("dealloc", "result") = {}
        /\ At("getExecutionResult", "host") = {}
        /\ At("read_string", "result") = {}
        /\ ExecuteEnded =>
              outcome = Returned([ok |-> FALSE, data |-> "none",
                                  error |-> "Host returned an empty result."])

\* C4 witness: a synchronous execute() has ended after the host reported
\* size 0.
C4_Witness ==
    /\ build = "sync"
    /\ ExecuteEnded
    /\ delivered = <<>>
    /\ \E i \in At("getExecutionResultSize", "host") : trace[i].len = 0

\* C5: in the Synchronous regime an execute() that returns a decoded result
\* has made exactly the host calls call, getExecutionResultSize,
\* getExecutionResult, in this order, the last with the pointer of the
\* buffer allocated between the last two; none follows the release of the
\* result buffer.
C5_ThreeHostCallsInOrder ==
    (build = "sync" /\ fr.kind = "call") =>
        /\ (ExecuteEnded /\ outcome.kind = "return" /\ fr.resultLen # 0) =>
              HostOps = <<"call", "getExecutionResultSize", "getExecutionResult">>
        /\ \E n \in 0..3 :
              HostOps = SubSeq(<<"call", "getExecutionResultSize",
                                "getExecutionResult">>, 1, n)
        /\ \A g \in At("getExecutionResult", "host") :
              /\ \E a \in At("alloc", "result") :
                    /\ a < g
                    /\ trace[a].ptr = trace[g].ptr
                    /\ \A z \in At("getExecutionResultSize", "host") : z < a
              /\ \A d \in At("dealloc", "result") : g < d
        /\ \A d \in At("dealloc", "result") :
              \A k \in DOMAIN trace : k > d => trace[k].site # "host"

\* C5 witness: a synchronous execute() returned the decoded five-byte
\* result.
C5_Witness ==
    /\ build = "sync"
    /\ ExecuteEnded
    /\ outcome = Returned(Response(TRUE, "e-acute", "none"))

\* C6: when the result the host delivered decodes to a response with
\* ok = false and an error message, execute() returns that response (it does
\* not raise and does not change the error), and __host.call was issued
\* exactly once for the invocation.
C6_HostErrorReturnedUnchanged ==
    (ExecuteEnded /\ delivered = <<123, 70, 109, 125>>
        /\ outcome # Raised("HostResultError")) =>
        /\ outcome = Returned([ok |-> FALSE, data |-> "none", error |-> "m"])
        /\ Cardinality(At("call", "host")) = 1

\* C6 witness: an execute() has ended after the host delivered the failure
\* response.
C6_Witness ==
    /\ ExecuteEnded
    /\ delivered = <<123, 70, 109, 125>>
    /\ outcome.kind = "return"
    /\ ~outcome.value.ok

\* C7: in the CooperativeSuspend regime, once execute() has read the staged
\* pointer and length, clear_response_buffer() is called before execute()
\* returns or raises, also when the staged bytes are not JSON; whenever a
\* new execute() can begin, the staging slot holds no response.
C7_StagingSlotCleared ==
    build = "async" =>
        /\ (pc \in {"a_parse", "a_finally", "o_finally", "idle"}) =>
              \A r \in At("get_response_len", "plugin") :
                  \E c \in At("clear_response_buffer", "plugin") : c > r
        /\ (pc = "idle" /\ asyncState = 0) => slot = [ptr |-> 0, len |-> 0]
        /\ (pc \in {"a_parse", "a_finally", "o_finally"}) => slot = [ptr |-> 0, len |-> 0]

\* C7 witness: an execute() that read a staged response which is not JSON
\* has raised.
C7_Witness ==
    /\ build = "async"
    /\ ExecuteEnded
    /\ outcome = Raised(SyntaxError)
    /\ delivered = <<123, 84>>
    /\ At("get_response_len", "plugin") # {}

\* C8: for every byte string the host can deliver, the empty one included,
\* execute() gives its caller the same outcome in the Synchronous and in the
\* CooperativeSuspend regime: whichever regime ran, the outcome is the one
\* the synchronous path and the Asyncify path both give for these bytes.
C8_SameOutcomeInBothRegimes ==
    EndedWithResult =>
        /\ outcome = SyncOutcomeOf(delivered)
        /\ outcome = AsyncOutcomeOf(delivered)

\* C9: a host response with ok = false reaches the caller of execute() as a
\* response value with ok = false carrying the host's error, in the WASM
\* builds (the return value) and in the worker build (the value the
\* returned promise resolves to).
C9_FailureResponseIsAValue ==
    /\ (build \in {"sync", "async"} /\ EndedWithResult
           /\ delivered = <<123, 70, 109, 125>>) =>
          outcome = Returned([ok |-> FALSE, data |-> "none", error |-> "m"])
    /\ build = "worker" =>
          \A id \in DOMAIN promises :
              (answered[id].got /\ ~answered[id].response.ok) =>
                  /\ promises[id].state = "resolved"
                  /\ promises[id].value = answered[id].response

\* C10: within one program instance the host observes the __host.call and
\* __host.cast primitives in the order in which guest code called execute()
\* and executeAsync(), one primitive per guest call, each with the action
\* name and parameters of its call.
C10_HostSeesCallsInOrder ==
    build \in {"sync", "async"} =>
        /\ Len(hostLog) <= Len(guestLog)
        /\ Len(guestLog) <= Len(hostLog) + 1
        /\ \A i \in DOMAIN hostLog : hostLog[i] = guestLog[i]
        /\ pc \in {"idle", "unwound", "resume"} => hostLog = guestLog
        /\ pass = 2 => hostLog = guestLog

\* C10 witness: two different guest calls, an execute() that was unwound
\* and rewound and an executeAsync(), have both ended.
C10_Witness ==
    /\ build = "async"
    /\ pc = "idle"
    /\ Len(guestLog) = 2
    /\ guestLog[1].prim # guestLog[2].prim
    /\ guestLog[1].name # guestLog[2].name
    /\ \E i \in DOMAIN trace : trace[i].op = "asyncify_stop_rewind"

\* C11: allocate(0), and stringToPtr of the empty string which goes
\* through it, issues no foreign allocation call: no __wasm.alloc with
\* size 0 is ever made.
C11_ZeroSizeNoForeignAlloc ==
    \A i \in DOMAIN trace : trace[i].op = "alloc" => trace[i].len # 0

\* C12: a zero-length handle is never dereferenced: readBufferSlice(ptr, 0)
\* and readString(ptr, 0) return an empty result without calling
\* __wasm.read_string, for every ptr; stringToPtr('') returns length 0
\* without calling __wasm.write_string; execute() makes no read_string or
\* write_string call of length 0.
C12_ZeroLengthNeverDereferenced ==
    /\ (mem.op \in {"readBufferSlice", "readString"} /\ mem.len = 0) =>
          /\ ~mem.raised
          /\ mem.out = <<>>
          /\ mem.events = <<>>
    /\ (mem.op = "stringToPtr" /\ mem.str = <<>>) =>
          /\ \A i \in DOMAIN mem.events : mem.events[i].op = "alloc"
          /\ ~mem.raised => mem.len = 0
    /\ \A i \in DOMAIN trace :
          trace[i].op \in {"read_string", "write_string"} => trace[i].len # 0

\* C12 witness: readString was asked for zero bytes at the offset of a live
\* block, with a read_string that would have raised.
C12_Witness ==
    /\ mem.op = "readString"
    /\ mem.len = 0
    /\ mem.ptr \in Offsets
    /\ arena[mem.ptr].live
    /\ mem.fault = "read"
    /\ mem.out = <<>>

\* C13: __wasm.dealloc is never called for the zero-length handle that
\* stringToPtr('') returned: an execute() with an empty action name issues
\* no dealloc(ptr, 0) for the action name on any exit path.
C13_NoReleaseOfZeroLengthHandle ==
    \A i \in DOMAIN trace :
        (trace[i].op = "dealloc" /\ trace[i].site = "actionName") =>
            trace[i].len # 0

\* C14: a __wasm.read_string that raises does not raise out of
\* readBufferSlice or readString, which return an empty byte sequence /
\* the empty string; in execute() the release of the buffer that was being
\* read, and of the parameter buffers, still runs afterwards.
C14_ReadFaultAbsorbed ==
    /\ (mem.op \in {"readBufferSlice", "readString"} /\ mem.fault = "read") =>
          /\ ~mem.raised
          /\ mem.out = <<>>
    /\ exc # "ReadError"
    /\ outcome # Raised("ReadError")
    /\ \A i \in DOMAIN trace :
          (trace[i].op = "console.error" /\ trace[i].pass = pass) =>
              /\ fr.resultJSON = <<>>
              /\ pc \in {"o_finally", "idle"} =>
                    \E j \in DOMAIN trace :
                        /\ j > i
                        /\ trace[j].op = "dealloc"
                        /\ trace[j].site = trace[i].site
                        /\ trace[j].ptr = trace[i].ptr
                        /\ trace[j].len = trace[i].len
                        /\ ~arena[trace[j].ptr].live
              /\ pc = "idle" =>
                    /\ outcome = Raised(SyntaxError)
                    /\ \A site \in ParamSites :
                          \E j \in AtPass("dealloc", site, pass) : j > i

\* C14 witness: a synchronous execute() whose read of the result buffer
\* failed at the foreign boundary has ended.
C14_Witness ==
    /\ build = "sync"
    /\ ExecuteEnded
    /\ At("console.error", "result") # {}
    /\ At("dealloc", "result") # {}

\* C15: a __wasm.write_string that raises inside stringToPtr does not raise
\* out of stringToPtr, and so not out of execute() or executeAsync().
C15_WriteFaultAbsorbed ==
    /\ (mem.op = "stringToPtr" /\ mem.fault = "write") => ~mem.raised
    /\ outcome # Raised("MarshalError")

\* C16: with an arena whose read_string returns what write_string stored,
\* the handle stringToPtr(t) returns has the UTF-8 byte length of t, which
\* is the size passed to alloc, and readBufferSlice of that handle yields
\* the UTF-8 bytes of t; for multi-byte characters and the empty string.
C16_ArenaRoundTrip ==
    /\ (mem.op = "stringToPtr" /\ ~mem.raised) =>
          /\ mem.len = Len(Utf8Encode(mem.str))
          /\ mem.events[1] = [op |-> "alloc", site |-> "adapter",
                              ptr |-> mem.ptr, len |-> mem.len, pass |-> 0]
          /\ mem.str = <<233, 97>> => mem.len = 3
          /\ mem.str = <<128512>> => mem.len = 4
    /\ (mem.op = "readBufferSlice" /\ mem.held /\ mem.fault = "none"
           /\ mem.ptr = mem.hptr /\ mem.len = mem.hlen) =>
          /\ mem.out = Utf8Encode(mem.hstr)
          /\ mem.hstr = <<>> => mem.out = <<>>
          /\ mem.hstr = <<233, 97>> => mem.out = <<195, 169, 97>>
          /\ mem.hstr = <<8364>> => mem.out = <<226, 130, 172>>
          /\ mem.hstr = <<128512>> => mem.out = <<240, 159, 152, 128>>

\* C16 witness: the four bytes of an emoji were read back through the
\* handle stringToPtr returned for it.
C16_Witness ==
    /\ mem.op = "readBufferSlice"
    /\ mem.held
    /\ mem.hstr = <<128512>>
    /\ mem.ptr = mem.hptr
    /\ mem.len = mem.hlen
    /\ mem.out = <<240, 159, 152, 128>>

\* C17: executeAsync() allocates the three parameter buffers, issues
\* __host.cast exactly once with them, and returns without releasing any
\* of them and without reading a response; the buffers stay allocated.
C17_CastKeepsItsBuffers ==
    fr.kind = "cast" =>
        /\ \A i \in DOMAIN trace :
              trace[i].op \in {"alloc", "write_string", "cast"}
        /\ Cardinality(At("cast", "host")) <= 1
        /\ (pc = "idle" /\ outcome.kind = "return") =>
              /\ Cardinality(At("cast", "host")) = 1
              /\ \A site \in ParamSites :
                    /\ Cardinality(At("alloc", site)) = 1
                    /\ \A i \in At("alloc", site), c \in At("cast", "host") :
                          /\ i < c
                          /\ arena[trace[i].ptr].live
                          /\ arena[trace[i].ptr].size = trace[i].len
              /\ \A i \in At("alloc", "actionName") :
                    trace[i].ptr = fr.actionNamePtr /\ trace[i].len = fr.actionNameLen
              /\ \A i \in At("alloc", "params") :
                    trace[i].ptr = fr.paramsPtr /\ trace[i].len = fr.paramsLen
              /\ \A i \in At("alloc", "context") :
                    trace[i].ptr = fr.contextPtr /\ trace[i].len = fr.contextLen
              /\ hostLog[Len(hostLog)] = guestLog[Len(guestLog)]
              /\ hostLog[Len(hostLog)].prim = "cast"
              /\ slot = ClearSlot

\* C17 witness: an executeAsync() has returned.
C17_Witness ==
    /\ fr.kind = "cast"
    /\ pc = "idle"
    /\ outcome.kind = "return"
    /\ At("cast", "host") # {}
    /\ arena[fr.paramsPtr].live

\* The '__done__' signals the host has received, in order.
DoneSignals ==
    SelectSeq(hostLog, LAMBDA e : e.prim = "cast" /\ e.name = DoneAction)

\* The blocking calls the host has received, in order.
BlockingCalls == SelectSeq(hostLog, LAMBDA e : e.prim = "call")

\* When the handler throws an Error or rejects with one, handle() catches
\* it once, returns, and the host has received one '__done__' signal, with
\* ok = false and the message of the Error.
ErrorObjectsSignalledOnce ==
    (hpc = "ended" /\ hs.handlerCalled /\ hs.thrown.kind = "Error") =>
        /\ ~hs.rejected
        /\ hs.caught = 1
        /\ DoneSignals = << [prim |-> "cast", name |-> DoneAction,
                             params |-> <<123, 70, 104, 125>>] >>

\* C18: in the non-worker builds, an error the user handler throws, or
\* rejects its promise with, is caught exactly once by handle(): handle()
\* does not raise to its caller and the host receives exactly one
\* '__done__' signal for the invocation, with ok = false, and none with
\* ok = true.
C18_HandlerErrorSignalledOnce ==
    /\ Len(DoneSignals) <= 1
    /\ (hpc = "ended" /\ hs.handlerCalled /\ hs.thrown.kind # "none") =>
          /\ ~hs.rejected
          /\ hs.caught = 1
          /\ Len(DoneSignals) = 1
          /\ DoneSignals[1].params[2] = 70

\* C19: in the async build, handle() never invokes the user handler, and
\* the only blocking host call it issues is one call of
\* 'runtime/script:execute' carrying the bundled script and the request it
\* read: exactly one once a request has been read and the call has ended,
\* none when the host supplied no request.
C19_OneDelegatedCall ==
    build = "async" =>
        /\ ~hs.handlerCalled
        /\ hpc # "handler"
        /\ Len(BlockingCalls) <= 1
        /\ \A i \in DOMAIN BlockingCalls :
              /\ BlockingCalls[i].name = ScriptAction
              /\ BlockingCalls[i].params = <<123, 115, hs.request, 125>>
              /\ IsRequestJSON(hs.input)
              /\ hs.request = hs.input[2]
        /\ (hpc \in {"catch", "signal", "ended"} /\ IsRequestJSON(hs.input)) =>
              Len(BlockingCalls) = 1
        /\ (~IsRequestJSON(hs.input)) => Len(BlockingCalls) = 0

\* C19 witness: handle() has ended in the async build after the delegated
\* call for request 'w' returned and the completion signal was sent.
C19_Witness ==
    /\ build = "async"
    /\ hpc = "ended"
    /\ hs.request = 119
    /\ hs.delegated.kind = "return"
    /\ Len(BlockingCalls) = 1
    /\ BlockingCalls[1].params = <<123, 115, 119, 125>>
    /\ pass = 1
    /\ fr.kind = "cast"

\* C20: in the async build, when the delegated call returns
\* {ok: true, data: d}, handle() signals '__done__' with ok = true and data
\* d; when it returns ok = false, handle() signals ok = false with the
\* host's error message, or with 'Unconstrained script execution failed'
\* when the response carries none.
C20_DelegatedResultSurfaced ==
    (build = "async" /\ hpc = "ended" /\ hs.delegated.kind = "return") =>
        /\ ~hs.rejected
        /\ Len(DoneSignals) = 1
        /\ hs.delegated.value.ok =>
              /\ hs.caught = 0
              /\ DoneSignals[1].params =
                    <<123, 84, CharOf(hs.delegated.value.data), 125>>
              /\ hs.delegated.value.data = "e-acute" =>
                    DoneSignals[1].params = <<123, 84, 233, 125>>
        /\ (~hs.delegated.value.ok) =>
              /\ hs.caught = 1
              /\ hs.delegated.value.error = "m" =>
                    DoneSignals[1].params = <<123, 70, 109, 125>>
              /\ hs.delegated.value.error = "none" =>
                    DoneSignals[1].params = <<123, 70, 85, 125>>
              /\ hs.delegated.value.error \in {"m", "none"}

\* C20 witness: the delegated call returned a failure with a message and
\* handle() has ended.
C20_Witness ==
    /\ build = "async"
    /\ hpc = "ended"
    /\ hs.delegated = Returned(Response(FALSE, "none", "m"))
    /\ Len(DoneSignals) = 1

\* The handle() calls made inside the worker that read a request and, when
\* `present`, found a channel at the global location.
RequestCalls(present) ==
    {i \in DOMAIN handleCalls :
        /\ ~NoInput(handleCalls[i].input)
        /\ (handleCalls[i].channel # 0) = present}

\* C21: the slot globalThis.__SIMPLE_PROMISE_CHANNEL__ is removed after
\* every run of the delegated wrapper, on every exit path (the handler's
\* promise resolves, it rejects, the import raises, the handler entry
\* point was never called): the global location is empty when a run has
\* ended, and while no run is in progress, so the next run finds no slot
\* of an earlier one.
C21_ChannelRemovedAfterEveryRun ==
    /\ \A k \in 1..MaxRuns : runs[k].pc = "ended" => runs[k].left = 0
    /\ (\A k \in 1..MaxRuns : runs[k].pc \in {"idle", "ended"})
          => promiseChannel = 0

\* C21 witness: one run ended because the import raised and another
\* because the promise of the handler rejected.
C21_Witness ==
    /\ runs[1].pc = "ended" /\ runs[1].result = Rejected(ImportError)
    /\ runs[2].pc = "ended" /\ runs[2].result = Rejected("h")

\* C22: a run of the delegated wrapper that finds
\* globalThis.__SIMPLE_PROMISE_CHANNEL__ already set when it starts does
\* not put its own channel there and ends with an error.
C22_ExistingSlotRejected ==
    \A k \in 1..MaxRuns :
        runs[k].found # 0 =>
            /\ promiseChannel # k
            /\ runs[k].pc = "ended" => runs[k].result.kind = "rejected"

\* C23: a pending result is placed on one channel at most once: a handle()
\* call that finds a promise already on the channel fails with an error
\* other than the 'channel missing' one and leaves that promise in place.
C23_SecondPlacementFails ==
    \A i \in RequestCalls(TRUE) :
        handleCalls[i].before # 0 =>
            /\ ~handleCalls[i].placed
            /\ handleCalls[i].result.kind = "rejected"
            /\ handleCalls[i].result.value # MissingChannel

\* C24: a run of the delegated wrapper whose program ran to completion
\* without calling the handler entry point, so that no promise was placed,
\* ends with the HandlerNotInvoked error and not with a value.
C24_HandlerNotInvokedReported ==
    \A k \in 1..MaxRuns :
        (/\ runs[k].pc = "ended"
         /\ runs[k].placed = 0
         /\ runs[k].result # Rejected(ImportError))
            => runs[k].result = Rejected("HandlerNotInvoked")

\* A handle() call inside the worker that read a request, found no channel
\* and whose handler returned a promise rejects with the MissingChannel
\* error, places nothing and posts nothing to the host.
MissingChannelWhenHandlerReturns ==
    \A i \in RequestCalls(FALSE) :
        handleCalls[i].outcome # "throw" =>
            /\ handleCalls[i].result = Rejected(MissingChannel)
            /\ ~handleCalls[i].placed
            /\ outbox = <<>>

\* C25: in the worker build a handle() call that read a valid request while
\* no channel was at globalThis.__SIMPLE_PROMISE_CHANNEL__ fails with the
\* MissingChannel error, places nothing and sends no '__done__' signal.
C25_MissingChannelReported ==
    \A i \in RequestCalls(FALSE) :
        /\ handleCalls[i].result = Rejected(MissingChannel)
        /\ ~handleCalls[i].placed
        /\ outbox = <<>>

\* The foreign calls of the trace, in order, without the console.
ForeignCalls == SelectSeq(trace, LAMBDA e : e.op # "console.error")

\* readInputFromHost() has just ended in handle(): it returned, or
\* __host.getContext raised.
InputJustRead ==
    \/ hpc = "parse"
    \/ hpc = "catch" /\ hs.thrown.message = "HostContextError"

\* C26: readInputFromHost uses the pre-placed payload first: when
\* globalThis.__SIMPLE_INITIAL_PAYLOAD__ is present it returns its request
\* and makes no host call; when it is absent it runs getContextSize,
\* alloc(size), getContext(ptr), the read and dealloc(ptr, size) in that
\* order, with one dealloc also when getContext raises, and with no alloc
\* when the size is 0.
C26_PayloadSlotFirst ==
    InputJustRead =>
        LET calls == ForeignCalls
            ops == [i \in DOMAIN calls |-> calls[i].op]
        IN  IF initialPayload # NoPayload
            THEN /\ trace = <<>>
                 /\ hs.input = <<123, initialPayload, 125>>
                 /\ FreeOffsets(arena) = Offsets
            ELSE /\ ops # <<>>
                 /\ ops[1] = "getContextSize"
                 /\ hs.size = calls[1].len
                 /\ IF hs.size = 0
                    THEN ops = <<"getContextSize">> /\ hs.input = <<>>
                    ELSE /\ IF hpc = "catch"
                            THEN ops = <<"getContextSize", "alloc",
                                         "getContext", "dealloc">>
                            ELSE ops = <<"getContextSize", "alloc",
                                         "getContext", "read_string",
                                         "dealloc">>
                         /\ calls[2].len = hs.size
                         /\ calls[3].ptr = calls[2].ptr
                         /\ hpc = "parse" =>
                               /\ calls[4].ptr = calls[2].ptr
                               /\ calls[4].len = hs.size
                         /\ calls[Len(calls)].ptr = calls[2].ptr
                         /\ calls[Len(calls)].len = hs.size
                         /\ FreeOffsets(arena) = Offsets

\* C26 witness: no payload was pre-placed, __host.getContext raised and
\* the buffer was released.
C26_Witness ==
    /\ initialPayload = NoPayload
    /\ hpc = "catch"
    /\ hs.thrown.message = "HostContextError"
    /\ Cardinality(At("dealloc", "input")) = 1

\* C27: when the host reports an initial payload of size 0 the payload
\* text is empty, handle() neither parses it nor invokes the user's
\* handler, and in the non-worker builds the host receives exactly one
\* '__done__' signal, with ok = false and the message 'no input payload
\* provided by the host environment'.
C27_EmptyPayloadOneErrorSignal ==
    hs.size = 0 =>
        /\ hs.input = <<>>
        /\ ~hs.parsed
        /\ ~hs.handlerCalled
        /\ hs.caught = 0
        /\ BlockingCalls = <<>>
        /\ Len(DoneSignals) <= 1
        /\ hpc = "ended" =>
              /\ ~hs.rejected
              /\ DoneSignals = << [prim |-> "cast", name |-> DoneAction,
                                   params |-> <<123, 70, 105, 125>>] >>

\* C27 witness: handle() has ended after the host reported size 0.
C27_Witness ==
    /\ hs.size = 0
    /\ hpc = "ended"
    /\ Len(DoneSignals) = 1

\* C28: in the worker build, with a valid request and a channel in place,
\* the promise handle() returns is the promise of the user's handler: it
\* is settled only when that one is, with the same value.
C28_HandleReturnsHandlerPromise ==
    \A i \in RequestCalls(TRUE) :
        (handleCalls[i].promise # 0 /\ handleCalls[i].result.kind # "none") =>
            LET p == handlerPromises[handleCalls[i].promise]
            IN  /\ p.state # "pending"
                /\ handleCalls[i].result.kind = p.state
                /\ handleCalls[i].result.value = p.value

\* C29: every buffer the arena allocator returned to an execute() entry
\* has been released exactly once when the entry ends, whatever its
\* offset, offset 0 included: one dealloc with the pointer and the length
\* of the alloc follows it, and the block is free.
C29_OffsetZeroReleased ==
    ExecuteEnded =>
        \A site \in ParamSites \cup {"result"} :
            \A i \in AtPass("alloc", site, pass) :
                /\ Cardinality({j \in AtPass("dealloc", site, pass) :
                                   /\ j > i
                                   /\ trace[j].ptr = trace[i].ptr
                                   /\ trace[j].len = trace[i].len}) = 1
                /\ ~arena[trace[i].ptr].live

\* C30: when an execute() of the CooperativeSuspend regime that was unwound
\* and re-entered from the top returns, every parameter buffer allocated
\* on either pass has been released exactly once: as many dealloc calls
\* as alloc calls were made for each parameter, no block was released
\* twice and none is still allocated.
C30_BothPassesReleased ==
    (build = "async" /\ ExecuteEnded /\ pass = 2) =>
        \A site \in ParamSites :
            /\ Cardinality(At("alloc", site)) = Cardinality(At("dealloc", site))
            /\ \A i \in At("alloc", site) :
                  /\ Cardinality({j \in At("dealloc", site) :
                                     j > i /\ trace[j].ptr = trace[i].ptr}) = 1
                  /\ ~arena[trace[i].ptr].live

\* C31: in the CooperativeSuspend regime the response buffer the host
\* staged is released by exactly one dealloc(responsePtr, responseLen),
\* with the pointer and the length that were read before the staging slot
\* was cleared, and after clear_response_buffer(); when the staged pointer
\* is 0 no release is issued.
C31_ResponseReleasedAfterClear ==
    (build = "async" /\ fr.kind = "call") =>
        /\ Cardinality(At("dealloc", "response")) <= 1
        /\ At("get_response_ptr", "plugin") = {} => At("dealloc", "response") = {}
        /\ (ExecuteEnded /\ At("get_response_ptr", "plugin") # {}) =>
              \A r \in At("get_response_ptr", "plugin"),
                 l \in At("get_response_len", "plugin") :
                  IF trace[r].ptr = 0
                  THEN At("dealloc", "response") = {}
                  ELSE /\ Cardinality(At("dealloc", "response")) = 1
                       /\ Cardinality(At("clear_response_buffer", "plugin")) = 1
                       /\ \A d \in At("dealloc", "response"),
                             c \in At("clear_response_buffer", "plugin") :
                              /\ r < c /\ l < c /\ c < d
                              /\ trace[d].ptr = trace[r].ptr
                              /\ trace[d].len = trace[l].len
                              /\ trace[d].len = Len(Utf8Encode(delivered))
                              /\ ~arena[trace[d].ptr].live

\* C31 witness: an execute() that was unwound and rewound has ended with
\* the exception of a failed JSON.parse, after it released the staged
\* two-byte response.
C31_Witness ==
    /\ build = "async"
    /\ ExecuteEnded
    /\ pass = 2
    /\ outcome = Raised(SyntaxError)
    /\ \E d \in At("dealloc", "response") : trace[d].len = 2

\* The parameter buffers whose handles execute() holds in the current pass.
HeldParams(f) ==
    {<<"actionName", f.actionNamePtr, f.actionNameLen>>,
     <<"params", f.paramsPtr, f.paramsLen>>,
     <<"context", f.contextPtr, f.contextLen>>}

\* C32: when the stringToPtr call for the second or the third parameter
\* buffer raises in execute(), every parameter buffer that call had
\* allocated before is released exactly once, no __host.call is issued,
\* and execute() ends with the exception.
C32_EarlierParamsReleasedOnMarshalFailure ==
    (ExecuteEnded /\ exc = "MarshalError" /\ Allocated(fr.actionNamePtr)) =>
        /\ outcome = Raised("MarshalError")
        /\ AtPass("call", "host", pass) = {}
        /\ Len(hostLog) = pass - 1
        /\ \A h \in HeldParams(fr) :
              IF Allocated(h[2])
              THEN /\ Cardinality(AtPass("dealloc", h[1], pass)) = 1
                   /\ \A d \in AtPass("dealloc", h[1], pass) :
                          /\ trace[d].ptr = h[2]
                          /\ trace[d].len = h[3]
                          /\ \E a \in AtPass("alloc", h[1], pass) :
                                a < d /\ trace[a].ptr = h[2]
                   /\ ~arena[h[2]].live
              ELSE AtPass("dealloc", h[1], pass) = {}

\* C32 witness: the third stringToPtr call of a first-pass execute()
\* raised at __wasm.alloc and execute() has ended after releasing the
\* action-name and params buffers.
C32_Witness ==
    /\ ExecuteEnded
    /\ pass = 1
    /\ exc = "MarshalError"
    /\ Allocated(fr.actionNamePtr) /\ Allocated(fr.paramsPtr)
    /\ \E a \in At("alloc", "context") : trace[a].ptr = 0
    /\ At("dealloc", "actionName") # {} /\ At("dealloc", "params") # {}

\* C33: stringToPtr either returns a handle or leaves no live allocation
\* behind: the block __wasm.alloc handed out is free again when
\* __wasm.write_string raised, and an execute() or executeAsync() that
\* ended with the exception of a stringToPtr call leaves no block of the
\* arena allocated.
C33_FailedStringToPtrLeavesNothing ==
    /\ (mem.op = "stringToPtr" /\ mem.raised) =>
          \A i \in DOMAIN mem.events :
              (mem.events[i].op = "alloc" /\ mem.events[i].ptr \in Offsets)
                  => ~arena[mem.events[i].ptr].live
    /\ (pc = "idle" /\ pass = 1 /\ outcome = Raised("MarshalError")) =>
          \A p \in Offsets : ~arena[p].live

\* C34: in the worker build, with several execute() calls outstanding, a
\* 'host_response' message settles the promise registered under its
\* requestId with its response and changes no other promise, whatever the
\* order of the responses relative to the order of the requests.
C34_ResponseSettlesItsOwnPromise ==
    [][\A m \in Messages :
          (WorkerOnMessage(m) /\ m.type = "host_response"
              /\ m.requestId \in pendingHostRequests) =>
                /\ promises[m.requestId].state = "pending"
                /\ promises'[m.requestId] = Settle(m.response)
                /\ \A id \in DOMAIN promises \ {m.requestId} :
                      promises'[id] = promises[id]
                /\ pendingHostRequests' = pendingHostRequests \ {m.requestId}]_vars

\* C34 witness: two execute() calls were outstanding and the response to
\* the second arrived first: the second promise is resolved, the first is
\* still pending.
C34_Witness ==
    /\ build = "worker"
    /\ Len(promises) = 2
    /\ promises[1].state = "pending"
    /\ promises[2].state = "resolved"
    /\ pendingHostRequests = {1}

\* A message the listener has nothing to do for: its type is not
\* 'host_response', or no request is outstanding under its requestId
\* (an id no call was given, or one that was answered before).
Ignorable(m) ==
    \/ m.type # "host_response"
    \/ m.requestId \notin DOMAIN promises
    \/ answered[m.requestId].got

\* C35: in the worker build a promise returned by execute() is settled at
\* most once: a settled promise never changes again, and a message whose
\* type is not 'host_response', a response with an unknown requestId and a
\* second response for an answered requestId leave pendingHostRequests and
\* every promise unchanged.
C35_SettledAtMostOnce ==
    [][/\ \A id \in DOMAIN promises :
              promises[id].state # "pending" => promises'[id] = promises[id]
       /\ \A m \in Messages :
              (WorkerOnMessage(m) /\ Ignorable(m)) =>
                  /\ pendingHostRequests' = pendingHostRequests
                  /\ promises' = promises]_vars

\* C35 witness: one request was answered with ok = true while another is
\* outstanding, so a second response for the first id, a response for an
\* id no call was given and a message of another type for the outstanding
\* id can all arrive.
C35_Witness ==
    /\ build = "worker"
    /\ Len(promises) = 2
    /\ answered[1].got /\ answered[1].response.ok
    /\ promises[1].state = "resolved"
    /\ pendingHostRequests = {2}
    /\ \E m \in Messages : m.requestId = 1 /\ ~m.response.ok /\ Ignorable(m)
    /\ \E m \in Messages : m.requestId \notin DOMAIN promises
    /\ \E m \in Messages : m.type = "other" /\ m.requestId = 2

\* The requestIds of the 'host_request' messages posted so far
\* (worker-override.js 48-52).
PostedRequests ==
    {outbox[i].requestId :
        i \in {j \in DOMAIN outbox : outbox[j].type = "host_request"}}

NoInputCalls == {i \in DOMAIN handleCalls : NoInput(handleCalls[i].input)}

\* C37: in the worker build, a handle() that finds no input payload places
\* a promise rejected with 'no input payload provided by the host
\* environment' on the delegation channel when the channel exists, places
\* nothing when it does not, and raises that same error; it does not
\* invoke the user's handler and no '__done__' signal is sent.
C37_NoInputRejectsOnChannel ==
    \A i \in NoInputCalls :
        LET call == handleCalls[i]
        IN  /\ call.result =
                  Rejected("no input payload provided by the host environment")
            /\ ~call.handlerCalled
            /\ call.outcome = "none"
            /\ IF call.channel # 0
               THEN /\ call.placed
                    /\ call.promise \in DOMAIN handlerPromises
                    /\ handlerPromises[call.promise].state = "rejected"
                    /\ handlerPromises[call.promise].value = call.result.value
               ELSE ~call.placed /\ call.promise = 0
            /\ DoneSignals = <<>>
            /\ \A j \in DOMAIN outbox : outbox[j].type # "host_cast"

\* C37 witness: a handle() found no payload while a wrapper run had its
\* channel in place, and that run has ended with the rejection that was
\* placed on the channel.
C37_Witness ==
    \E i \in NoInputCalls :
        /\ handleCalls[i].channel # 0
        /\ handleCalls[i].placed
        /\ runs[handleCalls[i].channel].result = Rejected(NoInputMessage)

\* C37 second witness: a handle() found no payload and no channel.
C37_WitnessNoChannel ==
    \E i \in NoInputCalls : handleCalls[i].channel = 0

\* The value at a path of array indexes inside obj.
RECURSIVE ValueAt(_, _)
ValueAt(obj, path) ==
    IF path = <<>> THEN obj ELSE ValueAt(obj.items[Head(path)], Tail(path))

\* The paths of obj itself and of the elements of arrays in it, at any
\* array nesting depth.
RECURSIVE ArrayPaths(_)
ArrayPaths(obj) ==
    {<<>>} \cup
    (IF obj.kind = "array"
     THEN UNION { {<<i>> \o p : p \in ArrayPaths(obj.items[i])} :
                    i \in DOMAIN obj.items }
     ELSE {})

\* Where the pending DocumentHandles of the running operation's input lie.
PendingPaths ==
    {p \in ArrayPaths(ai.input) :
        LET v == ValueAt(ai.input, p)
        IN  v.kind = "object" /\ v.pending /\ v.file_hash > 0}

UploadCalls == {i \in DOMAIN ai.calls : ai.calls[i].name = UploadAction}

OrchestratorCalls ==
    {i \in DOMAIN ai.calls : ai.calls[i].name = OrchestratorAction}

\* C38: in an extract/summarize operation every pending DocumentHandle of
\* the input (the input itself or an element of an array in it, at any
\* array nesting depth) is uploaded by exactly one upload-ephemeral host
\* call; at most one ai-orchestrator call is issued, after every upload was
\* answered with ok = true, and its input is the operation's input with
\* each pending handle replaced by the handle its upload returned; when an
\* upload is answered with ok = false no orchestrator call is issued and
\* the operation ends by raising.
C38_PendingUploadedBeforeOrchestrator ==
    ai.pc # "idle" =>
        /\ \A p \in PendingPaths :
              Cardinality({i \in UploadCalls : ai.calls[i].path = p}) = 1
        /\ \A i \in UploadCalls :
              /\ ai.calls[i].path \in PendingPaths
              /\ ai.calls[i].params = ValueAt(ai.input, ai.calls[i].path)
        /\ Cardinality(OrchestratorCalls) <= 1
        /\ \A o \in OrchestratorCalls :
              /\ ai.calls[o].operation = ai.operation
              /\ \A i \in UploadCalls :
                    i < o /\ ai.answers[i].got /\ ai.answers[i].ok
              /\ ArrayPaths(ai.calls[o].params) = ArrayPaths(ai.input)
              /\ \A p \in ArrayPaths(ai.input) :
                    LET before == ValueAt(ai.input, p)
                        sent == ValueAt(ai.calls[o].params, p)
                    IN  IF p \in PendingPaths
                        THEN \E i \in UploadCalls :
                                /\ ai.calls[i].path = p
                                /\ sent = ai.answers[i].data
                                /\ sent = EphemeralHandle(i)
                        ELSE IF before.kind = "array"
                        THEN sent.kind = "array"
                        ELSE sent = before
        /\ (\E i \in UploadCalls : ai.answers[i].got /\ ~ai.answers[i].ok) =>
              /\ OrchestratorCalls = {}
              /\ ai.pc = "done" => ai.outcome.kind = "raise"
        /\ (ai.pc = "done" /\ ai.outcome.kind = "return") =>
              Cardinality(OrchestratorCalls) = 1

\* C38 witness: an operation whose input holds two pending handles at
\* array nesting depth 3 has returned after two uploads and one
\* orchestrator call.
C38_Witness ==
    /\ ai.pc = "done"
    /\ ai.outcome.kind = "return"
    /\ Cardinality(UploadCalls) = 2
    /\ <<2, 2, 1>> \in PendingPaths /\ <<2, 2, 2>> \in PendingPaths
    /\ Cardinality(OrchestratorCalls) = 1

\* C38 second witness: the second of two uploads was answered with
\* ok = false while the first was still unanswered, and the operation has
\* raised.
C38_WitnessUploadFails ==
    /\ ai.pc = "done"
    /\ ai.outcome.kind = "raise"
    /\ Cardinality(UploadCalls) = 2
    /\ ~ai.answers[1].got
    /\ ai.answers[2].got /\ ~ai.answers[2].ok

====
